---- MODULE Spec2Model ----
(***************************************************************************)
(* Model of the signal enrichment and pattern-detection core of bus-agent  *)
(* (Solo SaaS Finder v2.0): the thesis scorer, the processing pipeline,    *)
(* the embedding clustering, the pattern detectors with their orchestrator *)
(* and the opportunity generator.                                          *)
(*                                                                         *)
(* Conventions.  Strings the code inspects character by character          *)
(* (industry names) are sequences of one-character strings.  Floats are    *)
(* fixed-point integers in thousandths (Scale), rounded toward minus       *)
(* infinity by \div.  Python's None is the integer None (-1) where the     *)
(* other values are integers, and a tagged record elsewhere.               *)
(***************************************************************************)
EXTENDS Integers, Sequences, FiniteSets, TLC

VARIABLES
    (* ThesisScorer.score called on its own *)
    scIn, scOut, scAcquires, scCalls,
    (* cluster_by_embedding called on its own *)
    clIn, clOut,
    (* the processing pipeline: the language model's and the embedding
       service's answers per raw signal, the processed_signals table, the
       velocity tracker's mentions, the clock (days), the current
       process_unprocessed run, the number of process_signal calls so far
       and a record of the last one *)
    scen, processed, counts, now, run, calls, last,
    (* the opportunity generator: the processed signals it is given (their
       disqualification flags), the opportunities table, the generator's
       _last_error and _errors, the numbers of rate_limiter.acquire() and
       messages.create() calls it made, a record of the last
       generate_from_pattern call and the current generate_from_patterns
       run *)
    gsignals, opportunities, gen, genAcquires, genCalls, glast, grun,
    (* ConvergenceDetector.detect called on its own: the processed signals
       it is given and what the call did *)
    csignals, cout,
    (* PatternDetector.detect_all: the signals it is given, the
       pattern_matches table, the number of detect_all calls so far and a
       record of the last one *)
    dsignals, pattern_matches, druns, dlast,
    (* a function of the processors called on its own: its arguments and
       what it returned *)
    fnIn, fnOut,
    (* one RateLimiter and the coroutines that call acquire() on it: the
       limiter's _minute_window, the clock (ticks), each caller's position
       and, for a sleeping caller, the time its sleep ends, and the order
       in which the callers invoked acquire() *)
    _minute_window, clock, callers, arrivals,
    (* a RateLimiter that may have hourly and daily limits too: its
       requests_per_minute, requests_per_hour and requests_per_day, and
       its _hour_window and _day_window *)
    limits, _hour_window, _day_window,
    (* process_unprocessed running in several processes over the one
       database: each worker's position, the fetches done so far (which
       worker, which raw signals, and how many inserts had been made when
       it read the processed ids and when it selected the raw signals)
       and the inserts into processed_signals in their order *)
    workers, fetches, inserts

scoreVars == <<scIn, scOut, scAcquires, scCalls>>
clusterVars == <<clIn, clOut>>
pipeVars == <<scen, processed, counts, now, run, calls, last>>
genVars == <<gsignals, opportunities, gen, genAcquires, genCalls, glast, grun>>
convVars == <<csignals, cout>>
detVars == <<dsignals, pattern_matches, druns, dlast>>
fnVars == <<fnIn, fnOut>>
limVars == <<_minute_window, clock, callers, arrivals, limits, _hour_window, _day_window>>
wrkVars == <<workers, fetches, inserts>>
vars == <<scIn, scOut, scAcquires, scCalls, clIn, clOut,
          scen, processed, counts, now, run, calls, last,
          gsignals, opportunities, gen, genAcquires, genCalls, glast, grun,
          csignals, cout, dsignals, pattern_matches, druns, dlast,
          fnIn, fnOut, _minute_window, clock, callers, arrivals,
          limits, _hour_window, _day_window,
          workers, fetches, inserts>>

None == 0 - 1
Scale == 10 * 100

Min(a, b) == IF a < b THEN a ELSE b
Max(a, b) == IF a > b THEN a ELSE b

RECURSIVE SeqSum(_)
SeqSum(s) == IF s = <<>> THEN 0 ELSE Head(s) + SeqSum(Tail(s))

RECURSIVE SelectSeqIdx(_, _, _)
(* the indices i of s, in order, whose element is in the set keep *)
SelectSeqIdx(s, keep, i) ==
    IF i > Len(s) THEN <<>>
    ELSE (IF s[i] \in keep THEN <<i>> ELSE <<>>) \o SelectSeqIdx(s, keep, i + 1)

Range(s) == { s[i] : i \in DOMAIN s }

(***************************************************************************)
(* src/utils/config.py                                                     *)
(***************************************************************************)
DISQUALIFIED_INDUSTRIES ==
    << <<"f","i","n","a","n","c","i","a","l"," ","s","e","r","v","i","c","e","s">>,
       <<"f","i","n","t","e","c","h">>,
       <<"b","a","n","k","i","n","g">>,
       <<"l","e","n","d","i","n","g">>,
       <<"p","a","y","m","e","n","t","s">>,
       <<"i","n","v","e","s","t","i","n","g">>,
       <<"c","r","y","p","t","o","c","u","r","r","e","n","c","y">>,
       <<"t","r","a","d","i","n","g">>,
       <<"h","e","a","l","t","h","c","a","r","e">>,
       <<"h","e","a","l","t","h","t","e","c","h">>,
       <<"m","e","d","i","c","a","l">>,
       <<"t","e","l","e","h","e","a","l","t","h">>,
       <<"p","a","t","i","e","n","t"," ","d","a","t","a">>,
       <<"m","e","d","i","c","a","l"," ","d","e","v","i","c","e","s">>,
       <<"l","e","g","a","l">>,
       <<"l","e","g","a","l"," ","t","e","c","h">>,
       <<"l","a","w">>,
       <<"l","e","g","a","l"," ","a","d","v","i","c","e">>,
       <<"i","n","s","u","r","a","n","c","e">>,
       <<"i","n","s","u","r","t","e","c","h">>,
       <<"g","a","m","b","l","i","n","g">>,
       <<"b","e","t","t","i","n","g">>,
       <<"c","a","s","i","n","o">>,
       <<"s","p","o","r","t","s"," ","b","e","t","t","i","n","g">>,
       <<"p","h","a","r","m","a","c","e","u","t","i","c","a","l","s">>,
       <<"c","a","n","n","a","b","i","s">>,
       <<"m","a","r","i","j","u","a","n","a">>,
       <<"f","i","r","e","a","r","m","s">>,
       <<"w","e","a","p","o","n","s">>,
       <<"g","o","v","e","r","n","m","e","n","t"," ","c","o","n","t","r","a","c","t","i","n","g">>,
       <<"c","o","n","t","r","o","l","l","e","d"," ","s","u","b","s","t","a","n","c","e","s">> >>

UpperChars == <<"A","B","C","D","E","F","G","H","I","J","K","L","M",
                "N","O","P","Q","R","S","T","U","V","W","X","Y","Z">>
LowerChars == <<"a","b","c","d","e","f","g","h","i","j","k","l","m",
                "n","o","p","q","r","s","t","u","v","w","x","y","z">>

(* str.lower() on one character *)
LowerChar(c) ==
    IF \E i \in DOMAIN UpperChars : UpperChars[i] = c
    THEN LowerChars[CHOOSE i \in DOMAIN UpperChars : UpperChars[i] = c]
    ELSE c

(* str.lower() *)
Lower(s) == [i \in DOMAIN s |-> LowerChar(s[i])]

(* Python's  s in t  on strings *)
IsSubstr(s, t) ==
    \E i \in 0..(Len(t) - Len(s)) : SubSeq(t, i + 1, i + Len(s)) = s

(* disqualified.lower() for each entry of the list *)
DisqualifiedLower ==
    [k \in DOMAIN DISQUALIFIED_INDUSTRIES |-> Lower(DISQUALIFIED_INDUSTRIES[k])]

is_disqualified_industry(industry) ==
    LET industry_lower == Lower(industry)
    IN  \E k \in DOMAIN DisqualifiedLower :
            \/ IsSubstr(DisqualifiedLower[k], industry_lower)
            \/ IsSubstr(industry_lower, DisqualifiedLower[k])

(* the six thesis factors, in the order of ThesisScores *)
Factors == <<"demand_evidence", "competition_gap", "trend_timing",
             "solo_buildability", "clear_monetisation", "regulatory_simplicity">>
FactorSet == Range(Factors)

(***************************************************************************)
(* src/processors/thesis_scorer.py                                         *)
(***************************************************************************)
(* ThesisScores(): every factor absent *)
EmptyScores == [f \in FactorSet |-> None]
(* ThesisScores(demand_evidence=1, ..., regulatory_simplicity=1) *)
AllOnes == [f \in FactorSet |-> 1]

(* int(x) for x given in tenths: truncation toward zero *)
IntOfTenths(v10) == IF v10 >= 0 THEN v10 \div 10 ELSE 0 - ((0 - v10) \div 10)

(* a JSON value of the scoring response under a factor's key:
   t = "none" (key missing or null), "num" (a bare number), "dict" (an
   object with a numeric "score"), "dictnoscore" (an object without one),
   "str" (anything else); v10 is the number in tenths *)
ScoreItem(t, v10) == [t |-> t, v10 |-> v10]

_extract_score(item) ==
    IF item.t = "none" THEN None
    ELSE IF item.t = "dict" THEN Max(1, Min(10, IntOfTenths(item.v10)))
    ELSE IF item.t = "num" THEN Max(1, Min(10, IntOfTenths(item.v10)))
    ELSE None

(* what the language model does on the scoring call:
   kind = "error" (the call raises), "badjson" (json.loads raises),
   "wrongshape" (valid JSON that is not an object: result.get raises),
   "ok" (an object, with its "disqualified" flag, its reason and its items) *)
ScoreResp(kind, disq, reason, items) ==
    [kind |-> kind, disqualified |-> disq, reason |-> reason, items |-> items]

NoReason == [kind |-> "none"]
ListReason(ind) == [kind |-> "list", ind |-> ind]
ModelReason == [kind |-> "model"]

ScoreResult(scores, disq, reason, acquired, called) ==
    [scores |-> scores, is_disqualified |-> disq,
     disqualification_reason |-> reason,
     acquired |-> acquired, called |-> called]

(* the industries score() checks, in order: the extracted ones, then the
   declared one when it is not empty *)
industries_to_check(ent_industries, industry) ==
    ent_industries \o (IF industry # <<>> THEN <<industry>> ELSE <<>>)

(* the part of score() after the industry pre-check: acquire, the model
   call, the parse *)
score_by_model(resp) ==
    IF resp.kind = "ok"
    THEN ScoreResult([f \in FactorSet |-> _extract_score(resp.items[f])],
                     resp.disqualified, resp.reason, 1, 1)
    ELSE ScoreResult(EmptyScores, FALSE, NoReason, 1, 1)

(* score() with the rate-limiter acquire placed before the industry
   pre-check, as generate_from_pattern and the other callers place it *)
score_acquire_first(ent_industries, industry, resp) ==
    LET inds == industries_to_check(ent_industries, industry)
        hits == { i \in DOMAIN inds : is_disqualified_industry(inds[i]) }
    IN  IF hits # {}
        THEN LET first == CHOOSE i \in hits : \A j \in hits : i <= j
             IN  ScoreResult(AllOnes, TRUE, ListReason(inds[first]), 1, 0)
        ELSE score_by_model(resp)

(* ThesisScorer.score; the fields acquired and called count the
   rate_limiter.acquire() and client.messages.create() calls it made *)
score(ent_industries, industry, resp) ==
    LET inds == industries_to_check(ent_industries, industry)
        hits == { i \in DOMAIN inds : is_disqualified_industry(inds[i]) }
    IN  IF hits # {}
        THEN LET first == CHOOSE i \in hits : \A j \in hits : i <= j
             IN  ScoreResult(AllOnes, TRUE, ListReason(inds[first]), 0, 0)
        ELSE score_by_model(resp)


(***************************************************************************)
(* ThesisScorer.score on its own: the inputs are drawn from bounded sets   *)
(* and one action applies the function.                                    *)
(***************************************************************************)
MaxEntIndustries == 2

(* industry names the classifier may hand over: on the list, containing a
   list entry, contained in a list entry ("tech", ""), in another case, and
   on no list *)
IndustryStrings ==
    { <<"h","e","a","l","t","h","c","a","r","e">>,
      <<"H","e","a","l","t","h","c","a","r","e"," ","I","T">>,
      <<"L","A","W">>,
      <<"t","e","c","h">>,
      <<"p","e","t"," ","g","r","o","o","m","i","n","g"," ","s","o","f","t","w","a","r","e">>,
      <<>>,
      <<"d","o","g"," ","w","a","l","k","i","n","g">> }

SeqsUpTo(S, n) == UNION { [1..k -> S] : k \in 0..n }

ItemsAll(item) == [f \in FactorSet |-> item]
ItemsMixed ==
    [f \in FactorSet |->
        CASE f = "demand_evidence"      -> ScoreItem("dict", 79)
          [] f = "competition_gap"      -> ScoreItem("num", 155)
          [] f = "trend_timing"         -> ScoreItem("num", 0 - 5)
          [] f = "solo_buildability"    -> ScoreItem("dictnoscore", 0)
          [] f = "clear_monetisation"   -> ScoreItem("str", 0)
          [] OTHER                      -> ScoreItem("none", 0)]

RespError == ScoreResp("error", FALSE, NoReason, ItemsAll(ScoreItem("none", 0)))
RespBadJson == ScoreResp("badjson", FALSE, NoReason, ItemsAll(ScoreItem("none", 0)))
RespWrongShape == ScoreResp("wrongshape", FALSE, NoReason, ItemsAll(ScoreItem("none", 0)))
RespOkSeven == ScoreResp("ok", FALSE, NoReason, ItemsAll(ScoreItem("dict", 70)))
RespOkMixed == ScoreResp("ok", FALSE, NoReason, ItemsMixed)
RespDisqScored == ScoreResp("ok", TRUE, ModelReason, ItemsAll(ScoreItem("dict", 80)))
RespDisqOnes == ScoreResp("ok", TRUE, ModelReason, ItemsAll(ScoreItem("num", 10)))

ScoreResponses ==
    { RespError, RespBadJson, RespWrongShape, RespOkSeven, RespOkMixed,
      RespDisqScored, RespDisqOnes }

ScoreInputs ==
    [ent_industries : SeqsUpTo(IndustryStrings, MaxEntIndustries),
     industry : IndustryStrings,
     resp : ScoreResponses]

IdleScore ==
    /\ scIn = [ent_industries |-> <<>>, industry |-> <<>>, resp |-> RespError]
    /\ scOut = <<>>
    /\ scAcquires = 0
    /\ scCalls = 0

IdleCluster ==
    /\ clIn = <<>>
    /\ clOut = <<>>

IdleFunctions ==
    /\ fnIn = <<>>
    /\ fnOut = <<>>

IdleWindows ==
    /\ limits = <<>>
    /\ _hour_window = <<>>
    /\ _day_window = <<>>

IdleLimiter ==
    /\ _minute_window = <<>>
    /\ clock = 0
    /\ callers = <<>>
    /\ arrivals = <<>>
    /\ IdleWindows

IdleWorkers ==
    /\ workers = <<>>
    /\ fetches = <<>>
    /\ inserts = <<>>

IdlePipeline ==
    /\ scen = <<>>
    /\ processed = <<>>
    /\ counts = <<>>
    /\ now = 0
    /\ run = <<>>
    /\ calls = 0
    /\ last = <<>>

IdleDetectors ==
    /\ csignals = <<>>
    /\ cout = <<>>
    /\ dsignals = <<>>
    /\ pattern_matches = <<>>
    /\ druns = 0
    /\ dlast = <<>>

IdleGen ==
    /\ gsignals = <<>>
    /\ opportunities = <<>>
    /\ gen = <<>>
    /\ genAcquires = 0
    /\ genCalls = 0
    /\ glast = <<>>
    /\ grun = <<>>

InitScore ==
    /\ IdleWorkers
    /\ scIn \in ScoreInputs
    /\ scOut = <<>>
    /\ scAcquires = 0
    /\ scCalls = 0
    /\ IdleCluster
    /\ IdlePipeline
    /\ IdleFunctions
    /\ IdleLimiter
    /\ IdleGen
    /\ IdleDetectors

(* one call of ThesisScorer.score *)
ScoreCall ==
    /\ scOut = <<>>
    /\ LET r == score(scIn.ent_industries, scIn.industry, scIn.resp)
       IN  /\ scOut' = <<r>>
           /\ scAcquires' = scAcquires + r.acquired
           /\ scCalls' = scCalls + r.called
    /\ UNCHANGED <<wrkVars, scIn, clusterVars, fnVars, limVars, pipeVars, genVars, convVars, detVars>>

NextScore == ScoreCall

SpecScore == InitScore /\ [][NextScore]_vars

(* the claim's notion of a match: case-insensitive, substring in either
   direction, against any entry of the list *)
C1_Matches(ind) ==
    LET x == Lower(ind)
    IN  \E d \in Range(DisqualifiedLower) : IsSubstr(d, x) \/ IsSubstr(x, d)

(* the industry strings given to the call: the extracted ones and the
   declared one (an empty declared industry declares none) *)
C1_Given ==
    Range(scIn.ent_industries) \cup
        (IF scIn.industry # <<>> THEN {scIn.industry} ELSE {})

(* C1: whenever a declared or extracted industry matches the disqualified
   list, score() returns all six factors = 1, is_disqualified = TRUE and a
   reason naming a matched industry, and made no model call and no
   rate-limiter acquire. *)
C1_PrecheckShortCircuits ==
    (scOut # <<>> /\ \E ind \in C1_Given : C1_Matches(ind)) =>
        /\ scOut[1].scores = AllOnes
        /\ scOut[1].is_disqualified = TRUE
        /\ scOut[1].disqualification_reason.kind = "list"
        /\ scOut[1].disqualification_reason.ind \in C1_Given
        /\ C1_Matches(scOut[1].disqualification_reason.ind)
        /\ scCalls = 0
        /\ scAcquires = 0

(* a call was made whose only match is fuzzy (no given string is literally
   a list entry) while the model would have answered with scores *)
C1_Witness ==
    /\ scOut # <<>>
    /\ \E ind \in C1_Given : C1_Matches(ind)
    /\ \A ind \in C1_Given : ind \notin Range(DISQUALIFIED_INDUSTRIES)
    /\ scIn.resp = RespOkSeven

(***************************************************************************)
(* src/processors/novelty.py                                               *)
(***************************************************************************)
(* an embedding is a vector <<x, y>> of integers; NoEmbedding is None *)
NoEmbedding == <<>>

(* the embeddings of the model: their norms are integers, so that every
   cosine similarity is a multiple of 1/Scale *)
Vectors == { <<1, 0>>, <<4, 3>>, <<3, 4>>, <<0, 1>>, <<0, 0>>, <<0 - 1, 0>> }

RECURSIVE SqrtSearch(_, _, _)
(* the largest r in lo..hi with r * r <= n, by bisection *)
SqrtSearch(n, lo, hi) ==
    IF lo >= hi THEN lo
    ELSE LET mid == (lo + hi + 1) \div 2
         IN  IF mid * mid <= n THEN SqrtSearch(n, mid, hi)
             ELSE SqrtSearch(n, lo, mid - 1)

(* the integer part of the square root (46340 is the largest root whose
   square the model checker's integers hold) *)
ISqrt(n) == SqrtSearch(n, 0, Min(n, 46340))

(* np.linalg.norm *)
Norm(a) == ISqrt(a[1] * a[1] + a[2] * a[2])

(* np.dot *)
Dot(a, b) == a[1] * b[1] + a[2] * b[2]

(* cosine_similarity, in thousandths *)
cosine_similarity(a, b) ==
    IF Norm(a) = 0 \/ Norm(b) = 0 THEN 0
    ELSE (Dot(a, b) * Scale) \div (Norm(a) * Norm(b))

(* the inner loop of cluster_by_embedding: the later indices j, in order,
   that are not assigned, have an embedding and are similar to the seed i *)
RECURSIVE absorb(_, _, _, _, _)
absorb(embeddings, threshold, i, j, assigned) ==
    IF j > Len(embeddings) THEN <<>>
    ELSE IF j \in assigned \/ embeddings[j] = NoEmbedding
         THEN absorb(embeddings, threshold, i, j + 1, assigned)
         ELSE IF cosine_similarity(embeddings[i], embeddings[j]) >= threshold
              THEN <<j>> \o absorb(embeddings, threshold, i, j + 1, assigned)
              ELSE absorb(embeddings, threshold, i, j + 1, assigned)

(* the outer loop with the absorbed indices left unassigned *)
RECURSIVE cluster_loop_unmarked(_, _, _, _, _)
cluster_loop_unmarked(embeddings, threshold, min_cluster_size, i, assigned) ==
    IF i > Len(embeddings) THEN <<>>
    ELSE IF i \in assigned \/ embeddings[i] = NoEmbedding
         THEN cluster_loop_unmarked(embeddings, threshold, min_cluster_size,
                                    i + 1, assigned)
         ELSE LET cluster == <<i>> \o absorb(embeddings, threshold, i, i + 1,
                                             assigned \cup {i})
                  rest == cluster_loop_unmarked(embeddings, threshold,
                              min_cluster_size, i + 1, assigned \cup {i})
              IN  IF Len(cluster) >= min_cluster_size
                  THEN <<cluster>> \o rest ELSE rest

(* the outer loop of cluster_by_embedding from index i on *)
RECURSIVE cluster_loop(_, _, _, _, _)
cluster_loop(embeddings, threshold, min_cluster_size, i, assigned) ==
    IF i > Len(embeddings) THEN <<>>
    ELSE IF i \in assigned \/ embeddings[i] = NoEmbedding
         THEN cluster_loop(embeddings, threshold, min_cluster_size,
                           i + 1, assigned)
         ELSE LET cluster == <<i>> \o absorb(embeddings, threshold, i, i + 1,
                                             assigned \cup {i})
                  rest == cluster_loop(embeddings, threshold, min_cluster_size,
                                       i + 1, assigned \cup Range(cluster))
              IN  IF Len(cluster) >= min_cluster_size
                  THEN <<cluster>> \o rest ELSE rest

(* cluster_by_embedding that forgets assigned[j] = True *)
cluster_by_embedding_unmarked(embeddings, threshold, min_cluster_size) ==
    cluster_loop_unmarked(embeddings, threshold, min_cluster_size, 1, {})

(* cluster_by_embedding; indices are 1-based here, 0-based in the code *)
cluster_by_embedding(embeddings, threshold, min_cluster_size) ==
    cluster_loop(embeddings, threshold, min_cluster_size, 1, {})

(* calculate_novelty_score with its default threshold; recent is the list
   get_recent_embeddings returned; the result is in thousandths *)
NoveltyThreshold == 850

calculate_novelty_score(new_embedding, recent_embeddings) ==
    IF recent_embeddings = <<>> THEN Scale
    ELSE IF new_embedding = NoEmbedding THEN Scale \div 2
    ELSE LET similarities ==
                 { cosine_similarity(new_embedding, recent_embeddings[k]) :
                     k \in { k \in DOMAIN recent_embeddings :
                               recent_embeddings[k] # NoEmbedding } }
         IN  IF similarities = {} THEN Scale
             ELSE LET max_similarity ==
                          CHOOSE m \in similarities : \A x \in similarities : x <= m
                  IN  IF max_similarity > NoveltyThreshold THEN 0
                      ELSE Scale - ((max_similarity * Scale) \div NoveltyThreshold)

(***************************************************************************)
(* src/processors/velocity.py                                              *)
(***************************************************************************)
(* calculate_velocity_score with baseline_growth = 2.0, in thousandths *)
calculate_velocity_score_undivided(count_7d, count_14d, count_30d) ==
    IF count_7d = 0 THEN 0
    ELSE LET previous_week == count_14d - count_7d
             wow_growth == IF previous_week > 0 THEN (count_7d * Scale) \div previous_week ELSE Min((count_7d * Scale) \div 5, 3 * Scale)
             acceleration == IF count_30d > 0 THEN (count_7d * Scale * 4) \div count_30d ELSE Scale
             raw_velocity == ((wow_growth \div 2) * ISqrt(acceleration * Scale)) \div Scale
         IN  Min(Scale, raw_velocity)

calculate_velocity_score(count_7d, count_14d, count_30d) ==
    IF count_7d = 0 THEN 0
    ELSE LET previous_week == count_14d - count_7d
             wow_growth ==
                 IF previous_week > 0 THEN (count_7d * Scale) \div previous_week
                 ELSE Min((count_7d * Scale) \div 5, 3 * Scale)
             acceleration ==
                 IF count_30d > 0 THEN (count_7d * Scale * 4) \div count_30d
                 ELSE Scale
             raw_velocity == ((wow_growth \div 2) * ISqrt(acceleration * Scale)) \div Scale
         IN  Min(Scale, raw_velocity \div 2)

(* the keywords of the model and keyword.lower() *)
Keywords == { "k1", "K1", "k2" }
KeywordLower(k) == IF k = "K1" THEN "k1" ELSE k
TrackerKeys == { KeywordLower(k) : k \in Keywords }

(* VelocityTracker.record_mention(keyword) at time t: the tracker maps a
   lowercased keyword to the list of its mention times *)
record_mention(tracker, keyword, t) ==
    [tracker EXCEPT ![KeywordLower(keyword)] = Append(@, t)]

RECURSIVE record_mentions(_, _, _)
(* the loop of process_signal over the classification's keywords *)
record_mentions(tracker, keywords, t) ==
    IF keywords = <<>> THEN tracker
    ELSE record_mentions(record_mention(tracker, Head(keywords), t),
                         Tail(keywords), t)

(* VelocityTracker.get_mention_counts: mentions not older than d days *)
mentions_within(tracker, keyword, t, d) ==
    Cardinality({ i \in DOMAIN tracker[KeywordLower(keyword)] :
                    tracker[KeywordLower(keyword)][i] >= t - d })

(* VelocityTracker.get_velocity_score *)
get_velocity_score(tracker, keyword, t) ==
    calculate_velocity_score(mentions_within(tracker, keyword, t, 7),
                             mentions_within(tracker, keyword, t, 14),
                             mentions_within(tracker, keyword, t, 30))

(***************************************************************************)
(* src/processors/classifier.py                                            *)
(***************************************************************************)
SIGNAL_TYPES == { "demand_signal", "complaint", "trend", "competition_intel",
                  "market_shift", "builder_activity" }

(* what the language model does on the classification call: kind = "error"
   (the call raises), "badjson", or "ok" with the fields of its JSON object;
   summary and problem_summary are "" or a non-blank text *)
ClsResp(kind, signal_type, summary, problem_summary, industry, ent_industries, keywords) ==
    [kind |-> kind, signal_type |-> signal_type, summary |-> summary,
     problem_summary |-> problem_summary, industry |-> industry,
     ent_industries |-> ent_industries, keywords |-> keywords]

(* SignalClassifier._default_classification *)
_default_classification ==
    [signal_type |-> "trend", title |-> "Signal from source",
     summary |-> "Unclassified signal from source", problem_summary |-> "",
     industry |-> <<>>, ent_industries |-> <<>>, keywords |-> <<>>]

(* SignalClassifier.classify *)
classify(resp) ==
    IF resp.kind = "ok"
    THEN [signal_type |-> IF resp.signal_type \in SIGNAL_TYPES
                          THEN resp.signal_type ELSE "trend",
          title |-> resp.summary,
          summary |-> resp.summary,
          problem_summary |-> resp.problem_summary,
          industry |-> resp.industry,
          ent_industries |-> resp.ent_industries,
          keywords |-> resp.keywords]
    ELSE _default_classification

(***************************************************************************)
(* src/processors/embeddings.py                                            *)
(***************************************************************************)
(* what the embedding service does: kind = "error" or "ok" with a vector *)
EmbResp(kind, vector) == [kind |-> kind, vector |-> vector]

(* EmbeddingGenerator.generate; blank tells that text.strip() is empty *)
generate(blank, resp) ==
    IF blank THEN NoEmbedding
    ELSE IF resp.kind = "ok" THEN resp.vector ELSE NoEmbedding

(***************************************************************************)
(* src/database/queries.py                                                 *)
(***************************************************************************)
(* get_recent_embeddings selecting the rows older than the cutoff *)
get_recent_embeddings_before_cutoff(table, t) ==
    LET idx == SelectSeqIdx([i \in DOMAIN table |->
                                IF table[i].processed_at < t - 7
                                   /\ table[i].embedding # NoEmbedding
                                THEN "in" ELSE "out"], {"in"}, 1)
    IN  [k \in DOMAIN idx |-> table[idx[k]].embedding]

(* Database.get_recent_embeddings(days=7): the non-null embeddings of the
   rows processed within the last 7 days, in table order *)
get_recent_embeddings(table, t) ==
    LET idx == SelectSeqIdx([i \in DOMAIN table |->
                                IF table[i].processed_at >= t - 7
                                   /\ table[i].embedding # NoEmbedding
                                THEN "in" ELSE "out"], {"in"}, 1)
    IN  [k \in DOMAIN idx |-> table[idx[k]].embedding]

(* get_unprocessed_signals without the filter on the processed ids *)
get_unprocessed_signals_unfiltered(raw_table, table, limit) ==
    [k \in 1..Min(limit, Len(raw_table)) |-> raw_table[k]]

(* Database.get_unprocessed_signals(limit): the raw signals, in table
   order, that no row of processed_signals refers to, cut to limit *)
get_unprocessed_signals(raw_table, table, limit) ==
    LET processed_ids == { table[i].raw_signal_id : i \in DOMAIN table }
        idx == SelectSeqIdx(raw_table, Range(raw_table) \ processed_ids, 1)
    IN  [k \in 1..Min(limit, Len(idx)) |-> raw_table[idx[k]]]

(* Database.insert_processed_signal: one insert of the whole row, the
   embedding with it *)
insert_processed_signal(table, signal, embedding, t) ==
    Append(table, signal @@ [embedding |-> embedding, processed_at |-> t])

(***************************************************************************)
(* src/processors/pipeline.py                                              *)
(***************************************************************************)
(* _infer_timing_stage with inclusive thresholds *)
_infer_timing_stage_inclusive(velocity_score, novelty_score) ==
    IF novelty_score >= 700
    THEN (IF velocity_score >= 500 THEN "emerging" ELSE "early")
    ELSE (IF velocity_score >= 500 THEN "growing" ELSE "crowded")

(* ProcessingPipeline._infer_timing_stage *)
_infer_timing_stage(velocity_score, novelty_score) ==
    IF novelty_score > 700
    THEN (IF velocity_score > 500 THEN "emerging" ELSE "early")
    ELSE (IF velocity_score > 500 THEN "growing" ELSE "crowded")

(* the places where a stage of process_signal can raise: building the
   embedding text (a keyword that is no string), get_recent_embeddings,
   the validation of ProcessedSignalCreate, insert_processed_signal.
   classify, score and generate catch their own errors and degrade. *)
Faults == { "none", "embed_text", "fetch_recent", "create", "insert" }

(* text_for_embedding.strip() is empty *)
text_is_blank(classification) ==
    /\ classification.title = ""
    /\ classification.summary = ""
    /\ classification.problem_summary = ""
    /\ classification.keywords = <<>>

(* the ProcessedSignalCreate process_signal builds *)
ProcessedSignalCreate(raw, classification, thesis_result, novelty_score, velocity_score) ==
    [raw_signal_id |-> raw,
     signal_type |-> classification.signal_type,
     title |-> classification.title,
     summary |-> classification.summary,
     problem_summary |-> classification.problem_summary,
     ent_industries |-> classification.ent_industries,
     keywords |-> classification.keywords,
     thesis_scores |-> thesis_result.scores,
     novelty_score |-> novelty_score,
     velocity_score |-> velocity_score,
     timing_stage |-> _infer_timing_stage(velocity_score, novelty_score),
     is_disqualified |-> thesis_result.is_disqualified,
     disqualification_reason |-> thesis_result.disqualification_reason]

(* the result of one process_signal call: the table and the tracker after
   it, what it returned (<<>> for None, else <<processed>>) and whether it
   let an exception out *)
Outcome(table, tracker, result, raised) ==
    [processed |-> table, counts |-> tracker, result |-> result,
     raised |-> raised]

(* the body of process_signal's try block; failed tells the caller that a
   stage raised *)
process_signal_body(raw, sc, fault, table, tracker, t) ==
    LET classification == classify(sc.cls)
        thesis_result == score(classification.ent_industries,
                               classification.industry, sc.scr)
        embedding == generate(text_is_blank(classification), sc.emb)
        recent_embeddings == get_recent_embeddings(table, t)
        novelty_score == calculate_novelty_score(embedding, recent_embeddings)
        tracker2 == record_mentions(tracker, classification.keywords, t)
        velocities == [k \in DOMAIN classification.keywords |->
                          get_velocity_score(tracker2, classification.keywords[k], t)]
        velocity_score == IF velocities # <<>>
                          THEN SeqSum(velocities) \div Len(velocities) ELSE 0
        signal == ProcessedSignalCreate(raw, classification, thesis_result,
                                        novelty_score, velocity_score)
    IN  IF fault \in {"embed_text", "fetch_recent"}
        THEN [failed |-> TRUE, out |-> Outcome(table, tracker, <<>>, FALSE)]
        ELSE IF fault \in {"create", "insert"}
        THEN [failed |-> TRUE, out |-> Outcome(table, tracker2, <<>>, FALSE)]
        ELSE [failed |-> FALSE,
              out |-> Outcome(insert_processed_signal(table, signal, embedding, t),
                              tracker2, <<signal>>, FALSE)]

(* process_signal without its try/except: a stage's exception goes out *)
process_signal_unguarded(raw, sc, fault, table, tracker, t) ==
    LET b == process_signal_body(raw, sc, fault, table, tracker, t)
    IN  IF b.failed THEN [b.out EXCEPT !.raised = TRUE] ELSE b.out

(* process_signal over a store that has written the row, without its
   embedding, when the insert fails *)
process_signal_partial_row(raw, sc, fault, table, tracker, t) ==
    LET whole == process_signal_body(raw, sc, "none", table, tracker, t).out
        c == process_signal_body(raw, sc, fault, table, tracker, t).out
    IN  IF fault = "insert"
        THEN [c EXCEPT !.processed =
                 Append(table, whole.result[1] @@
                     [embedding |-> NoEmbedding, processed_at |-> t])]
        ELSE c

(* ProcessingPipeline.process_signal: every exception of a stage is caught
   and None is returned *)
process_signal(raw, sc, fault, table, tracker, t) ==
    process_signal_body(raw, sc, fault, table, tracker, t).out

(***************************************************************************)
(* cluster_by_embedding on its own                                         *)
(***************************************************************************)
MaxEmbeddings == 4
MaxMinClusterSize == 3

(* similarity thresholds in thousandths: 0.75 (the default) and 0.9 *)
Thresholds == { 750, 900 }

ClusterInputs ==
    [embeddings : SeqsUpTo(Vectors \cup {NoEmbedding}, MaxEmbeddings),
     threshold : Thresholds,
     min_cluster_size : 1..MaxMinClusterSize]

InitCluster ==
    /\ IdleWorkers
    /\ clIn \in ClusterInputs
    /\ clOut = <<>>
    /\ IdleScore
    /\ IdlePipeline
    /\ IdleFunctions
    /\ IdleLimiter
    /\ IdleGen
    /\ IdleDetectors

(* one call of cluster_by_embedding *)
ClusterCall ==
    /\ clOut = <<>>
    /\ clOut' = <<cluster_by_embedding(clIn.embeddings, clIn.threshold,
                                       clIn.min_cluster_size)>>
    /\ UNCHANGED <<wrkVars, clIn, fnVars, limVars, scoreVars, pipeVars, genVars, convVars, detVars>>

NextCluster == ClusterCall

SpecCluster == InitCluster /\ [][NextCluster]_vars

(* C10: no returned cluster has fewer than min_cluster_size indices, no
   index appears in two returned clusters, and none twice in one cluster. *)
C10_ClustersDisjointAndLargeEnough ==
    clOut # <<>> =>
        LET clusters == clOut[1]
        IN  /\ \A c \in DOMAIN clusters :
                /\ Len(clusters[c]) >= clIn.min_cluster_size
                /\ \A a, b \in DOMAIN clusters[c] :
                       a # b => clusters[c][a] # clusters[c][b]
            /\ \A c, d \in DOMAIN clusters :
                   c # d => Range(clusters[c]) \cap Range(clusters[d]) = {}

(* two clusters came back although an index of the second is as close to
   the first seed's member as the threshold asks (the greedy pass had to
   keep them apart), with a minimum size of 2 *)
C10_Witness ==
    /\ clOut # <<>>
    /\ clIn.min_cluster_size = 2
    /\ Len(clOut[1]) = 2
    /\ \E a \in Range(clOut[1][1]), b \in Range(clOut[1][2]) :
           cosine_similarity(clIn.embeddings[a], clIn.embeddings[b])
               >= clIn.threshold

(***************************************************************************)
(* The pipeline as a state machine: process_unprocessed runs (one worker), *)
(* direct process_signal calls, and the clock.                             *)
(***************************************************************************)
MaxRaw == 2
MaxCalls == 2
MaxTicks == 1

(* the raw_signals table: the raw signals' ids in table order *)
raw_table == [i \in 1..MaxRaw |-> i]

ClsPet == ClsResp("ok", "demand_signal", "s", "p",
                  <<"p","e","t"," ","g","r","o","o","m","i","n","g"," ","s","o","f","t","w","a","r","e">>,
                  <<>>, <<"k1", "k2">>)
ClsHealth == ClsResp("ok", "complaint", "s", "p",
                     <<"h","e","a","l","t","h","c","a","r","e">>,
                     << <<"H","e","a","l","t","h","c","a","r","e"," ","I","T">> >>,
                     <<"K1">>)
ClsError == ClsResp("error", "", "", "", <<>>, <<>>, <<>>)

(* what the three services answer for one raw signal; they answer the
   same every time the signal is processed *)
Scenario(cls, scr, emb) == [cls |-> cls, scr |-> scr, emb |-> emb]

Scenarios ==
    { Scenario(ClsPet, RespOkSeven, EmbResp("ok", <<1, 0>>)),
      Scenario(ClsPet, RespDisqScored, EmbResp("ok", <<4, 3>>)),
      Scenario(ClsHealth, RespOkSeven, EmbResp("ok", <<3, 4>>)),
      Scenario(ClsError, RespBadJson, EmbResp("error", NoEmbedding)) }

IdleRun == [status |-> "idle", input |-> <<>>, queue |-> <<>>,
            results |-> <<>>, attempts |-> <<>>, returned |-> 0]

InitPipeline ==
    /\ IdleWorkers
    /\ scen \in [1..MaxRaw -> Scenarios]
    /\ processed = <<>>
    /\ counts = [k \in TrackerKeys |-> <<>>]
    /\ now = 0
    /\ run = IdleRun
    /\ calls = 0
    /\ last = <<>>
    /\ IdleScore
    /\ IdleCluster
    /\ IdleGen
    /\ IdleDetectors
    /\ IdleFunctions
    /\ IdleLimiter

(* the record of a process_signal call: its argument, the state before it
   and what it returned *)
CallRecord(raw, out) ==
    <<[raw |-> raw, result |-> out.result,
       processed_before |-> processed, counts_before |-> counts]>>

(* process_unprocessed up to its call of process_batch: the fetch of the
   unprocessed raw signals; it returns 0 when there are none *)
StartRun(limit) ==
    /\ run.status \in {"idle", "returned"}
    /\ LET unprocessed == get_unprocessed_signals(raw_table, processed, limit)
       IN  run' = IF unprocessed = <<>>
                  THEN [IdleRun EXCEPT !.status = "returned"]
                  ELSE [IdleRun EXCEPT !.status = "running",
                                       !.input = unprocessed,
                                       !.queue = unprocessed]
    /\ UNCHANGED <<wrkVars, scen, processed, counts, now, calls, last, scoreVars, clusterVars, fnVars, limVars, genVars, convVars, detVars>>

(* one iteration of process_batch's loop: process_signal on the next raw
   signal, its result appended when it is not None *)
BatchStep(fault) ==
    /\ run.status = "running"
    /\ run.queue # <<>>
    /\ calls < MaxCalls
    /\ LET raw == Head(run.queue)
           out == process_signal(raw, scen[raw], fault, processed, counts, now)
       IN  /\ processed' = out.processed
           /\ counts' = out.counts
           /\ last' = CallRecord(raw, out)
           /\ run' = IF out.raised
                     THEN [run EXCEPT !.status = "raised"]
                     ELSE [run EXCEPT
                             !.queue = Tail(@),
                             !.results = @ \o out.result,
                             !.attempts = Append(@, [raw |-> raw,
                                                     ok |-> out.result # <<>>])]
    /\ calls' = calls + 1
    /\ UNCHANGED <<wrkVars, scen, now, scoreVars, clusterVars, fnVars, limVars, genVars, convVars, detVars>>

(* process_batch returns its results and process_unprocessed their number *)
EndRun ==
    /\ run.status = "running"
    /\ run.queue = <<>>
    /\ run' = [run EXCEPT !.status = "returned", !.returned = Len(run.results)]
    /\ UNCHANGED <<wrkVars, scen, processed, counts, now, calls, last, scoreVars, clusterVars, fnVars, limVars, genVars, convVars, detVars>>

(* process_signal called on a raw signal outside a batch, as the refresh
   script does for every raw signal whether processed before or not *)
DirectCall(raw, fault) ==
    /\ calls < MaxCalls
    /\ LET out == process_signal(raw, scen[raw], fault, processed, counts, now)
       IN  /\ processed' = out.processed
           /\ counts' = out.counts
           /\ last' = CallRecord(raw, out)
    /\ calls' = calls + 1
    /\ UNCHANGED <<wrkVars, scen, now, run, scoreVars, clusterVars, fnVars, limVars, genVars, convVars, detVars>>

(* eight days pass (between batches: a batch takes minutes) *)
Tick ==
    /\ run.status # "running"
    /\ now < 8 * MaxTicks
    /\ now' = now + 8
    /\ UNCHANGED <<wrkVars, scen, processed, counts, run, calls, last, scoreVars, clusterVars, fnVars, limVars, genVars, convVars, detVars>>

NextPipeline ==
    \/ \E limit \in {1, MaxRaw} : StartRun(limit)
    \/ \E fault \in Faults : BatchStep(fault)
    \/ EndRun
    \/ Tick

(* the scheduled job: process_unprocessed run after run *)
SpecPipeline == InitPipeline /\ [][NextPipeline]_vars

NextSignal ==
    \/ \E raw \in 1..MaxRaw, fault \in Faults : DirectCall(raw, fault)
    \/ Tick

(* process_signal called signal by signal *)
SpecSignal == InitPipeline /\ [][NextSignal]_vars

(***************************************************************************)
(* Properties of the pipeline.                                             *)
(***************************************************************************)
(* C2: every row of processed_signals with is_disqualified = true carries
   thesis scores whose six factors are all 1, whichever path set the flag *)
C2_DisqualifiedRowsAllOnes ==
    \A i \in DOMAIN processed :
        processed[i].is_disqualified => processed[i].thesis_scores = AllOnes

(* the raw signals of a sequence of attempts, and those that succeeded *)
AttemptRaws(attempts) == [i \in DOMAIN attempts |-> attempts[i].raw]
SucceededRaws(attempts) ==
    LET idx == SelectSeqIdx([i \in DOMAIN attempts |->
                                IF attempts[i].ok THEN "ok" ELSE "failed"],
                            {"ok"}, 1)
    IN  [k \in DOMAIN idx |-> attempts[idx[k]].raw]

(* C4: process_batch never raises; a raw signal whose processing fails
   yields no output record and the others are still processed in input
   order; the list returned holds exactly the records that succeeded *)
C4_BatchIsolatesFailures ==
    /\ run.status # "raised"
    /\ Len(run.attempts) + Len(run.queue) = Len(run.input)
    /\ AttemptRaws(run.attempts) = SubSeq(run.input, 1, Len(run.attempts))
    /\ [i \in DOMAIN run.results |-> run.results[i].raw_signal_id]
           = SucceededRaws(run.attempts)
    /\ run.status = "returned" =>
           /\ Len(run.attempts) = Len(run.input)
           /\ run.returned = Len(run.results)

(* a batch has returned in which a record failed and a later one succeeded *)
C4_Witness ==
    /\ run.status = "returned"
    /\ \E i, j \in DOMAIN run.attempts :
           i < j /\ ~run.attempts[i].ok /\ run.attempts[j].ok
    /\ Len(run.results) = 1

(* the fields of a row of processed_signals *)
RowFields ==
    { "raw_signal_id", "signal_type", "title", "summary", "problem_summary",
      "ent_industries", "keywords", "thesis_scores", "novelty_score",
      "velocity_score", "timing_stage", "is_disqualified",
      "disqualification_reason", "embedding", "processed_at" }

(* the embedding the embedding stage yields for a raw signal *)
EmbeddingOf(raw) ==
    generate(text_is_blank(classify(scen[raw].cls)), scen[raw].emb)

(* C5: a call of process_signal either appends to processed_signals one
   row holding every field of the record it returns together with the
   embedding made for it (none when the embedding stage degraded), or,
   when a stage fails, leaves the stored rows as they were before the
   call *)
C5_StoreAllOrNothing ==
    last # <<>> =>
        LET c == last[1]
        IN  IF c.result = <<>>
            THEN processed = c.processed_before
            ELSE /\ Len(processed) = Len(c.processed_before) + 1
                 /\ SubSeq(processed, 1, Len(c.processed_before))
                        = c.processed_before
                 /\ LET row == processed[Len(processed)]
                    IN  /\ DOMAIN row = RowFields
                        /\ row.raw_signal_id = c.raw
                        /\ row.embedding = EmbeddingOf(c.raw)
                        /\ \A f \in DOMAIN c.result[1] : row[f] = c.result[1][f]

(* a call has failed after its keywords' mentions were recorded: the
   stored rows, of which there is one already, are as before *)
C5_Witness ==
    /\ last # <<>>
    /\ last[1].result = <<>>
    /\ counts # last[1].counts_before
    /\ processed # <<>>
    /\ processed = last[1].processed_before

(* the fields of a row that process_signal takes from the classifier, the
   scorer and the embedding service *)
ResponseFields ==
    { "raw_signal_id", "signal_type", "title", "summary", "problem_summary",
      "ent_industries", "keywords", "thesis_scores", "is_disqualified",
      "disqualification_reason", "embedding" }

(* C6 as stated: two rows made from the same raw signal with the same
   responses are identical field for field, novelty score, velocity score
   and timing stage included *)
C6_ReprocessingIdentical ==
    \A i, j \in DOMAIN processed :
        processed[i].raw_signal_id = processed[j].raw_signal_id =>
            \A f \in RowFields \ {"processed_at"} :
                processed[i][f] = processed[j][f]

(* C6 amended: two rows made from the same raw signal with the same
   responses agree on the fields taken from the responses; the novelty
   score is computed against the stored rows, so the later row has
   novelty 0 when the earlier one, with a non-zero embedding, was
   processed at most 7 days before it *)
C6_ReprocessingSameResponses ==
    \A i, j \in DOMAIN processed :
        (i < j /\ processed[i].raw_signal_id = processed[j].raw_signal_id) =>
            /\ \A f \in ResponseFields : processed[i][f] = processed[j][f]
            /\ ( /\ processed[i].embedding # NoEmbedding
                 /\ Norm(processed[i].embedding) > 0
                 /\ processed[i].processed_at >= processed[j].processed_at - 7 )
                  => processed[j].novelty_score = 0

(* a raw signal has been processed twice within the window: the first row
   was fully novel, the second is not *)
C6_Witness ==
    \E i, j \in DOMAIN processed :
        /\ i < j
        /\ processed[i].raw_signal_id = processed[j].raw_signal_id
        /\ processed[i].processed_at = processed[j].processed_at
        /\ processed[i].novelty_score = Scale
        /\ processed[j].novelty_score = 0

(***************************************************************************)
(* src/reasoning/opportunity_generator.py                                  *)
(***************************************************************************)
MaxGenSignals == 2
MaxPatterns == 2
MaxGenCalls == 2

(* the processed signals handed to the generator: signal i of the table *)
GenSignal(flags, i) == [id |-> i, is_disqualified |-> flags[i]]
GenSignalList(flags) == [i \in DOMAIN flags |-> GenSignal(flags, i)]

(* the signal_ids a pattern can carry: the first signal, the first two,
   or an id that no supplied signal has *)
PatternSignalIds == { <<1>>, <<1, 2>>, <<MaxGenSignals + 1>> }

(* a PatternMatch as far as the generator reads it *)
PatternMatch(id, signal_ids, opportunity_score) ==
    [id |-> id, signal_ids |-> signal_ids, opportunity_score |-> opportunity_score]

(* the patterns given to the generator: scored 0.8, and one scored 0.4 *)
PatternChoices(id) ==
    { PatternMatch(id, ids, 800) : ids \in PatternSignalIds }
        \cup { PatternMatch(id, <<1>>, 400) }

(* what the language model does on the generation call, and whether the
   insert into the opportunities table succeeds *)
GenResponses == { "ok", "badjson", "error" }

(* the first n elements of a list: seq[:n] *)
Take(seq, n) == SubSeq(seq, 1, Min(n, Len(seq)))

(* the signals that are not disqualified, in list order *)
not_disqualified(signals) ==
    LET idx == SelectSeqIdx([i \in DOMAIN signals |->
                                IF signals[i].is_disqualified
                                THEN "out" ELSE "in"], {"in"}, 1)
    IN  [k \in DOMAIN idx |-> signals[idx[k]]]

(* the OpportunityCreate generate_from_pattern builds *)
OpportunityCreate(pattern) ==
    [pattern_ids |-> <<pattern.id>>, signal_ids |-> pattern.signal_ids]

(* the result of one generate_from_pattern call: the table, _last_error
   and the counters after it, what it returned (<<>> for None) and the
   signals formatted into the prompt of the model call it made, if any *)
GenOutcome(table, last_error, acquires, called, result, prompts) ==
    [opportunities |-> table, last_error |-> last_error,
     acquires |-> acquires, calls |-> called, result |-> result,
     prompts |-> prompts]

(* OpportunityGenerator.generate_from_pattern *)
generate_from_pattern(pattern, signals, resp, insert_ok, table, last_error, acquires, called) ==
    LET formatted_signals == not_disqualified(Take(signals, 10))
        opportunity == OpportunityCreate(pattern)
    IN  IF resp = "badjson"
        THEN GenOutcome(table, "JSON parse error", acquires + 1, called + 1,
                        <<>>, <<formatted_signals>>)
        ELSE IF resp = "error" \/ ~insert_ok
        THEN GenOutcome(table, "Exception", acquires + 1, called + 1,
                        <<>>, <<formatted_signals>>)
        ELSE GenOutcome(Append(table, opportunity), last_error, acquires + 1,
                        called + 1, <<opportunity>>, <<formatted_signals>>)

(* the signals of a list whose id is one of a pattern's signal_ids *)
signals_of(pattern, signals) ==
    LET idx == SelectSeqIdx([i \in DOMAIN signals |->
                                IF signals[i].id \in Range(pattern.signal_ids)
                                THEN "in" ELSE "out"], {"in"}, 1)
    IN  [k \in DOMAIN idx |-> signals[idx[k]]]

(* related_signals with the disqualified signals kept *)
related_signals_unfiltered(pattern, signals) ==
    LET ids == pattern.signal_ids
        idx == SelectSeqIdx([k \in DOMAIN ids |-> IF ids[k] \in DOMAIN signals THEN "in" ELSE "out"], {"in"}, 1)
    IN  [k \in DOMAIN idx |-> signals[ids[idx[k]]]]

(* related_signals of generate_from_patterns: the signals the pattern's
   signal_ids resolve to in signal_map, the disqualified ones left out, in
   the order of signal_ids *)
related_signals(pattern, signals) ==
    LET ids == pattern.signal_ids
        idx == SelectSeqIdx([k \in DOMAIN ids |->
                                IF /\ ids[k] \in DOMAIN signals
                                   /\ ~signals[ids[k]].is_disqualified
                                THEN "in" ELSE "out"], {"in"}, 1)
    IN  [k \in DOMAIN idx |-> signals[ids[idx[k]]]]

(* high_score_patterns of generate_from_patterns *)
high_score_patterns(patterns, min_score) ==
    LET idx == SelectSeqIdx([i \in DOMAIN patterns |->
                                IF patterns[i].opportunity_score >= min_score
                                THEN "in" ELSE "out"], {"in"}, 1)
    IN  [k \in DOMAIN idx |-> patterns[idx[k]]]

NoError == "none"
IdleGenRun == [status |-> "idle", patterns |-> <<>>, queue |-> <<>>,
               opportunities |-> <<>>, attempted |-> <<>>]

InitGen ==
    /\ IdleWorkers
    /\ gsignals \in [1..MaxGenSignals -> BOOLEAN]
    /\ opportunities = <<>>
    /\ gen = [_last_error |-> NoError, _errors |-> <<>>]
    /\ genAcquires = 0
    /\ genCalls = 0
    /\ glast = <<>>
    /\ grun = IdleGenRun
    /\ IdleDetectors
    /\ IdleScore
    /\ IdleCluster
    /\ IdlePipeline
    /\ IdleFunctions
    /\ IdleLimiter

(* the record of a generate_from_pattern call: its arguments, the state
   before it, what it returned and the prompt of its model call *)
GenCallRecord(pattern, signals, out) ==
    <<[pattern |-> pattern, signals |-> signals, result |-> out.result,
       prompts |-> out.prompts, calls_before |-> genCalls,
       acquires_before |-> genAcquires,
       opportunities_before |-> opportunities]>>

(* generate_from_pattern called on its own for one pattern, with the
   signals its signal_ids name as the list of supporting signals (a
   non-empty list, disqualified signals included) *)
GenerateFromPattern(pattern, resp, insert_ok) ==
    /\ genCalls < MaxGenCalls
    /\ LET signals == signals_of(pattern, GenSignalList(gsignals))
           out == generate_from_pattern(pattern, signals, resp, insert_ok,
                      opportunities, gen._last_error, genAcquires, genCalls)
       IN  /\ signals # <<>>
           /\ opportunities' = out.opportunities
           /\ gen' = [gen EXCEPT !._last_error = out.last_error]
           /\ genAcquires' = out.acquires
           /\ genCalls' = out.calls
           /\ glast' = GenCallRecord(pattern, signals, out)
    /\ UNCHANGED <<wrkVars, gsignals, grun, scoreVars, clusterVars, fnVars, limVars, pipeVars, convVars, detVars>>

(* generate_from_patterns(patterns, signals) with min_score = 0.5, up to
   its loop *)
StartGenRun(patterns) ==
    /\ grun.status # "running"
    /\ genCalls < MaxGenCalls
    /\ grun' = [IdleGenRun EXCEPT !.status = "running",
                                  !.patterns = patterns,
                                  !.queue = high_score_patterns(patterns, 500)]
    /\ UNCHANGED <<wrkVars, gsignals, opportunities, gen, genAcquires, genCalls, glast,
                   scoreVars, clusterVars, fnVars, limVars, pipeVars, convVars, detVars>>

(* one iteration of the loop of generate_from_patterns: a pattern without
   related signals is skipped, else generate_from_pattern is called and
   its opportunity, or an entry of _errors, appended *)
GenRunStep(resp, insert_ok) ==
    /\ grun.status = "running"
    /\ grun.queue # <<>>
    /\ LET pattern == Head(grun.queue)
           related == related_signals(pattern, GenSignalList(gsignals))
           out == generate_from_pattern(pattern, related, resp, insert_ok,
                      opportunities, gen._last_error, genAcquires, genCalls)
       IN  IF related = <<>>
           THEN /\ grun' = [grun EXCEPT !.queue = Tail(@)]
                /\ UNCHANGED <<wrkVars, opportunities, gen, genAcquires, genCalls, glast>>
           ELSE /\ genCalls < MaxGenCalls
                /\ opportunities' = out.opportunities
                /\ genAcquires' = out.acquires
                /\ genCalls' = out.calls
                /\ glast' = GenCallRecord(pattern, related, out)
                /\ gen' = IF out.result # <<>>
                          THEN [gen EXCEPT !._last_error = out.last_error]
                          ELSE [_last_error |-> out.last_error,
                                _errors |-> Append(gen._errors,
                                    [pattern_id |-> pattern.id,
                                     error |-> out.last_error])]
                /\ grun' = [grun EXCEPT
                              !.queue = Tail(@),
                              !.opportunities = @ \o out.result,
                              !.attempted = Append(@, pattern.id)]
    /\ UNCHANGED <<wrkVars, gsignals, scoreVars, clusterVars, fnVars, limVars, pipeVars, convVars, detVars>>

(* generate_from_patterns returns its opportunities *)
EndGenRun ==
    /\ grun.status = "running"
    /\ grun.queue = <<>>
    /\ grun' = [grun EXCEPT !.status = "returned"]
    /\ UNCHANGED <<wrkVars, gsignals, opportunities, gen, genAcquires, genCalls, glast,
                   scoreVars, clusterVars, fnVars, limVars, pipeVars, convVars, detVars>>

(* OpportunityGenerator.clear_errors *)
ClearErrors ==
    /\ grun.status # "running"
    /\ gen._errors # <<>>
    /\ gen' = [gen EXCEPT !._errors = <<>>]
    /\ UNCHANGED <<wrkVars, gsignals, opportunities, genAcquires, genCalls, glast, grun,
                   scoreVars, clusterVars, fnVars, limVars, pipeVars, convVars, detVars>>

NextGenerate ==
    \E id \in 1..MaxPatterns : \E pattern \in PatternChoices(id) :
        \E resp \in GenResponses, insert_ok \in BOOLEAN :
            GenerateFromPattern(pattern, resp, insert_ok)

(* generate_from_pattern called pattern by pattern *)
SpecGenerate == InitGen /\ [][NextGenerate]_vars

NextGen ==
    \/ \E n \in 1..MaxPatterns :
         \E choice \in [1..n -> PatternChoices(0)] :
            StartGenRun([i \in 1..n |-> [choice[i] EXCEPT !.id = i]])
    \/ \E resp \in GenResponses, insert_ok \in BOOLEAN : GenRunStep(resp, insert_ok)
    \/ EndGenRun
    \/ ClearErrors

(* the scheduled job: generate_from_patterns run after run *)
SpecGen == InitGen /\ [][NextGen]_vars

(* C3: when every supporting record passed to generate_from_pattern is
   disqualified, it returns none without a language-model call and without
   storing an opportunity *)
C3_NoCallWhenAllDisqualified ==
    glast # <<>> =>
        LET c == glast[1]
        IN  ( /\ c.signals # <<>>
              /\ \A i \in DOMAIN c.signals : c.signals[i].is_disqualified )
            => /\ c.result = <<>>
               /\ genCalls = c.calls_before
               /\ opportunities = c.opportunities_before

(***************************************************************************)
(* src/patterns/convergence.py                                             *)
(***************************************************************************)
MaxConvSignals == 3

(* the defaults of ConvergenceDetector.detect *)
min_signals == 3
similarity_threshold == 750

(* the signal types and embeddings of the signals given to the detector *)
ConvSignalTypes == { "complaint", "trend" }
ConvEmbeddings == { <<1, 0>>, <<4, 3>>, <<0, 1>>, NoEmbedding }

(* a ProcessedSignal as far as the detector reads it; every stored signal
   carries a ThesisScores object *)
ConvSignal(id, raw_signal_id, signal_type, embedding) ==
    [id |-> id, raw_signal_id |-> raw_signal_id, signal_type |-> signal_type,
     embedding |-> embedding, thesis_scores |-> AllOnes]

(* the raw signals a list of n signals was made from: signal i from raw
   signal i, or it is another processing of raw signal 1 *)
ConvRawIds(n) == { r \in [1..n -> 1..n] : \A i \in 1..n : r[i] \in {1, i} }

(* what the language model does on the convergence call: kind = "error",
   "badjson", or "ok" with is_genuine, confidence (thousandths) and timing *)
ConvResp(kind, is_genuine, confidence, timing) ==
    [kind |-> kind, is_genuine |-> is_genuine, confidence |-> confidence,
     timing |-> timing]

ConvResponses ==
    { ConvResp("error", FALSE, 0, ""), ConvResp("badjson", FALSE, 0, "") }
        \cup { ConvResp("ok", g, c, t) : g \in BOOLEAN, c \in {400, 500, 900},
                                         t \in {"emerging", "crowded", "later"} }

(* the attributes _aggregate_thesis_scores reads from a ThesisScores *)
LegacyFactors ==
    { "ai_leverage", "trust_scarcity", "physical_digital", "incumbent_decay",
      "speed_advantage", "execution_fit" }

(* ConvergenceDetector._aggregate_thesis_scores: reading an attribute the
   ThesisScores model does not have raises AttributeError *)
_aggregate_thesis_scores(signals) ==
    IF \E i \in DOMAIN signals : \E f \in LegacyFactors :
           f \notin DOMAIN signals[i].thesis_scores
    THEN [raised |-> TRUE, scores |-> <<>>]
    ELSE [raised |-> FALSE,
          scores |-> [f \in LegacyFactors |->
              LET v == SelectSeqIdx([i \in DOMAIN signals |->
                           IF signals[i].thesis_scores[f] \notin {None, 0}
                           THEN "in" ELSE "out"], {"in"}, 1)
              IN  IF v = <<>> THEN None
                  ELSE SeqSum([k \in DOMAIN v |->
                           signals[v[k]].thesis_scores[f] * Scale]) \div Len(v)]]

(* the timing multiplier of _analyze_convergence, in thousandths *)
timing_multiplier(timing) ==
    CASE timing = "early" -> 900
      [] timing = "emerging" -> 1000
      [] timing = "growing" -> 800
      [] timing = "crowded" -> 500
      [] OTHER -> 700

(* the PatternMatchCreate a detector builds *)
PatternMatchCreate(pattern_type, signal_ids, confidence_score, opportunity_score) ==
    [pattern_type |-> pattern_type, signal_ids |-> signal_ids,
     signal_count |-> Len(signal_ids), confidence_score |-> confidence_score,
     opportunity_score |-> opportunity_score]

(* ConvergenceDetector._analyze_convergence: <<>> for None *)
_analyze_convergence(signals, resp) ==
    IF resp.kind # "ok" THEN <<>>
    ELSE IF ~resp.is_genuine THEN <<>>
    ELSE IF resp.confidence < 500 THEN <<>>
    ELSE LET opportunity_score ==
                 (((resp.confidence * timing_multiplier(resp.timing)) \div Scale)
                     * Min(Scale, (Len(signals) * Scale) \div 5)) \div Scale
             thesis_scores == _aggregate_thesis_scores(signals)
         IN  IF thesis_scores.raised THEN <<>>
             ELSE << PatternMatchCreate("convergence",
                         [i \in DOMAIN signals |-> signals[i].id],
                         resp.confidence, opportunity_score) >>

(* the signals of a list that have an embedding, in list order *)
with_embedding(signals) ==
    LET idx == SelectSeqIdx([i \in DOMAIN signals |->
                                IF signals[i].embedding # NoEmbedding
                                THEN "in" ELSE "out"], {"in"}, 1)
    IN  [k \in DOMAIN idx |-> signals[idx[k]]]

RECURSIVE detect_loop(_, _, _)
(* the loop of detect over the clusters: the patterns found, and for every
   language-model call made the cluster it was about and what came of it *)
detect_loop(clusters, embedded, resp) ==
    IF clusters = <<>> THEN [patterns |-> <<>>, analysed |-> <<>>]
    ELSE LET cluster_signals == [k \in DOMAIN Head(clusters) |->
                                    embedded[Head(clusters)[k]]]
             source_categories == { cluster_signals[k].raw_signal_id :
                                      k \in DOMAIN cluster_signals }
             rest == detect_loop(Tail(clusters), embedded, resp)
             pattern == _analyze_convergence(cluster_signals, resp)
         IN  IF Len(cluster_signals) < min_signals THEN rest
             ELSE IF Cardinality(source_categories) < 2 THEN rest
             ELSE [patterns |-> pattern \o rest.patterns,
                   analysed |-> <<[signals |-> cluster_signals, resp |-> resp,
                                   returned |-> pattern]>> \o rest.analysed]

(* ConvergenceDetector.detect with its default min_signals and
   similarity_threshold; the model gives the same answer for every cluster *)
detect(signals, resp) ==
    LET embedded == with_embedding(signals)
        embeddings == [k \in DOMAIN embedded |-> embedded[k].embedding]
    IN  IF Len(signals) < min_signals
        THEN [patterns |-> <<>>, analysed |-> <<>>]
        ELSE IF Len(embeddings) < min_signals
        THEN [patterns |-> <<>>, analysed |-> <<>>]
        ELSE detect_loop(cluster_by_embedding(embeddings, similarity_threshold,
                                              min_signals),
                         embedded, resp)

InitConverge ==
    /\ IdleWorkers
    /\ \E n \in 0..MaxConvSignals :
          \E raw \in ConvRawIds(n), type \in [1..n -> ConvSignalTypes],
             emb \in [1..n -> ConvEmbeddings] :
              csignals = [i \in 1..n |-> ConvSignal(i, raw[i], type[i], emb[i])]
    /\ cout = <<>>
    /\ dsignals = <<>>
    /\ pattern_matches = <<>>
    /\ druns = 0
    /\ dlast = <<>>
    /\ IdleScore
    /\ IdleCluster
    /\ IdlePipeline
    /\ IdleFunctions
    /\ IdleLimiter
    /\ IdleGen

(* one call of ConvergenceDetector.detect *)
ConvDetect(resp) ==
    /\ cout = <<>>
    /\ cout' = <<detect(csignals, resp)>>
    /\ UNCHANGED <<wrkVars, csignals, detVars, scoreVars, clusterVars, fnVars, limVars, pipeVars, genVars>>

NextConverge == \E resp \in ConvResponses : ConvDetect(resp)

SpecConverge == InitConverge /\ [][NextConverge]_vars

(* the signal types of a list of signals *)
SignalTypesOf(signals) == { signals[k].signal_type : k \in DOMAIN signals }

(* C8: every cluster sent to the language model, and every convergence
   pattern returned, has records of at least 2 distinct signal types and
   at least min_signals = 3 records *)
C8_ValidatedClustersAreDiverse ==
    cout # <<>> =>
        /\ \A a \in DOMAIN cout[1].analysed :
               /\ Cardinality(SignalTypesOf(cout[1].analysed[a].signals)) >= 2
               /\ Len(cout[1].analysed[a].signals) >= 3
        /\ \A p \in DOMAIN cout[1].patterns :
               /\ Len(cout[1].patterns[p].signal_ids) >= 3
               /\ Cardinality({ csignals[i].signal_type :
                      i \in Range(cout[1].patterns[p].signal_ids) }) >= 2

(* the opportunity score the convergence detector is to give: confidence *
   timing multiplier * min(1, cluster_size / 5), in thousandths *)
C9_Score(confidence, timing, size) ==
    LET multiplier == CASE timing = "early" -> 900
                        [] timing = "emerging" -> 1000
                        [] timing = "growing" -> 800
                        [] timing = "crowded" -> 500
                        [] OTHER -> 700
    IN  (((confidence * multiplier) \div 1000) * Min(1000, (size * 1000) \div 5)) \div 1000

(* C9: for a surviving cluster a pattern is returned if and only if the
   model's answer says genuine with confidence >= 0.5, and its opportunity
   score is confidence * timing_multiplier * min(1, cluster_size / 5) *)
C9_PatternIffGenuineAndConfident ==
    cout # <<>> =>
        \A a \in DOMAIN cout[1].analysed :
            LET c == cout[1].analysed[a]
            IN  /\ (c.returned # <<>>) <=>
                       (c.resp.kind = "ok" /\ c.resp.is_genuine
                            /\ c.resp.confidence >= 500)
                /\ c.returned # <<>> =>
                       c.returned[1].opportunity_score =
                           C9_Score(c.resp.confidence, c.resp.timing,
                                    Len(c.signals))

(***************************************************************************)
(* src/patterns/detector.py                                                *)
(***************************************************************************)
MaxDetectRuns == 2

(* what a detector's detect() did: it raised, or it returned candidates *)
DetectorResult(raised, patterns) == [raised |-> raised, patterns |-> patterns]

(* the signal lists detect_all is given: none, or three processed signals
   that form a cluster *)
DetectSignalLists ==
    { <<>>,
      << ConvSignal(1, 1, "complaint", <<1, 0>>),
         ConvSignal(2, 2, "trend", <<4, 3>>),
         ConvSignal(3, 3, "trend", <<1, 0>>) >> }

(* the velocity spike detector and the gap detector as detect_all sees
   them: each raises or returns a list of candidates *)
VelocityCandidate(ids) == PatternMatchCreate("velocity_spike", ids, 900, 1000)
GapCandidate(ids) == PatternMatchCreate("gap", ids, 800, 640)
VelocityResults ==
    { DetectorResult(TRUE, <<>>), DetectorResult(FALSE, <<>>),
      DetectorResult(FALSE, << VelocityCandidate(<<1, 2>>) >>),
      DetectorResult(FALSE, << VelocityCandidate(<<1, 2>>),
                               VelocityCandidate(<<2, 3>>) >>) }
GapResults ==
    { DetectorResult(TRUE, <<>>), DetectorResult(FALSE, <<>>),
      DetectorResult(FALSE, << GapCandidate(<<1>>) >>) }

(* the convergence detector as detect_all sees it: detect raises (the
   embeddings it is given have different lengths), or returns what detect
   computes *)
convergence_result(raises, signals, resp) ==
    IF raises THEN DetectorResult(TRUE, <<>>)
    ELSE DetectorResult(FALSE, detect(signals, resp).patterns)

(* all_patterns of detect_all: the candidates of the detectors that did
   not raise, in the order convergence, velocity, gap *)
all_patterns(conv, vel, gap) ==
    (IF conv.raised THEN <<>> ELSE conv.patterns)
        \o (IF vel.raised THEN <<>> ELSE vel.patterns)
        \o (IF gap.raised THEN <<>> ELSE gap.patterns)

insert_pattern_as_reviewed(table, pattern_create) ==
    pattern_create @@ [id |-> Len(table) + 1, status |-> "reviewed"]

(* Database.insert_pattern: the PatternMatch stored for a candidate *)
insert_pattern(table, pattern_create) ==
    pattern_create @@ [id |-> Len(table) + 1, status |-> "new"]

RECURSIVE store_loop(_, _, _, _)
(* the loop of detect_all that stores the candidates: candidate k is
   inserted unless its insert fails (k in failing), then its timing is
   analysed, which never raises, and it is added to stored_patterns *)
store_loop(candidates, k, failing, table) ==
    IF k > Len(candidates) THEN [table |-> table, stored |-> <<>>]
    ELSE IF k \in failing
    THEN store_loop(candidates, k + 1, failing, table)
    ELSE LET pattern == insert_pattern(table, candidates[k])
             rest == store_loop(candidates, k + 1, failing,
                                Append(table, pattern))
         IN  [table |-> rest.table, stored |-> <<pattern>> \o rest.stored]

(* the result of detect_all: the table after it, the detectors it ran, the
   list it returned, and whether it let an exception out *)
DetectOutcome(table, ran, returned, raised) ==
    [table |-> table, ran |-> ran, returned |-> returned, raised |-> raised]

Detectors == <<"convergence", "velocity", "gap">>

(* detect_all without the try/except around the detectors: the first
   detector that raises ends the call *)
detect_all_unguarded(signals, conv, vel, gap, failing, table) ==
    IF signals = <<>> THEN DetectOutcome(table, {}, <<>>, FALSE)
    ELSE IF conv.raised THEN DetectOutcome(table, {"convergence"}, <<>>, TRUE)
    ELSE IF vel.raised
    THEN DetectOutcome(table, {"convergence", "velocity"}, <<>>, TRUE)
    ELSE IF gap.raised THEN DetectOutcome(table, Range(Detectors), <<>>, TRUE)
    ELSE LET s == store_loop(all_patterns(conv, vel, gap), 1, failing, table)
         IN  DetectOutcome(s.table, Range(Detectors), s.stored, FALSE)

(* PatternDetector.detect_all(signals) *)
detect_all(signals, conv, vel, gap, failing, table) ==
    IF signals = <<>> THEN DetectOutcome(table, {}, <<>>, FALSE)
    ELSE LET s == store_loop(all_patterns(conv, vel, gap), 1, failing, table)
         IN  DetectOutcome(s.table, Range(Detectors), s.stored, FALSE)

InitDetect ==
    /\ IdleWorkers
    /\ dsignals \in DetectSignalLists
    /\ pattern_matches = <<>>
    /\ druns = 0
    /\ dlast = <<>>
    /\ csignals = <<>>
    /\ cout = <<>>
    /\ IdleScore
    /\ IdleCluster
    /\ IdlePipeline
    /\ IdleFunctions
    /\ IdleLimiter
    /\ IdleGen

(* one call of detect_all; the record of the call keeps what the
   detectors did, the inserts that failed and what the call did *)
DetectAll(conv, vel, gap, failing) ==
    /\ druns < MaxDetectRuns
    /\ LET out == detect_all(dsignals, conv, vel, gap, failing, pattern_matches)
       IN  /\ pattern_matches' = out.table
           /\ dlast' = <<[conv |-> conv, vel |-> vel, gap |-> gap,
                          failing |-> failing, ran |-> out.ran,
                          returned |-> out.returned, raised |-> out.raised,
                          table_before |-> pattern_matches]>>
    /\ druns' = druns + 1
    /\ UNCHANGED <<wrkVars, dsignals, convVars, scoreVars, clusterVars, fnVars, limVars, pipeVars, genVars>>

(* the answers of the language model to the convergence detector within
   detect_all: a genuine, confident convergence, or a failing call *)
DetectConvResponses ==
    { ConvResp("ok", TRUE, 900, "emerging"), ConvResp("error", FALSE, 0, "") }

NextDetect ==
    \E raises \in BOOLEAN, resp \in DetectConvResponses,
       vel \in VelocityResults, gap \in GapResults :
        LET conv == convergence_result(raises, dsignals, resp)
        IN  \E failing \in SUBSET (1..Len(all_patterns(conv, vel, gap))) :
                DetectAll(conv, vel, gap, failing)

SpecDetect == InitDetect /\ [][NextDetect]_vars

(* the candidates of a detector that did not raise *)
CandidatesOf(result) == IF result.raised THEN <<>> ELSE result.patterns

(* the candidate a stored pattern was made from *)
CandidateOfPattern(pattern) ==
    [f \in DOMAIN pattern \ {"id", "status"} |-> pattern[f]]

(* C7: in a detect_all call on some signals, a detector that raises does
   not keep the others from running nor the call from returning, and the
   candidates of the detectors that did not raise are persisted and
   returned, in order, each one whose insert did not fail *)
C7_DetectorFailuresIsolated ==
    (dlast # <<>> /\ dsignals # <<>>) =>
        LET c == dlast[1]
            expected == CandidatesOf(c.conv) \o CandidatesOf(c.vel)
                            \o CandidatesOf(c.gap)
            kept == SelectSeqIdx([k \in DOMAIN expected |->
                        IF k \in c.failing THEN "out" ELSE "in"], {"in"}, 1)
        IN  /\ ~c.raised
            /\ c.ran = {"convergence", "velocity", "gap"}
            /\ Len(c.returned) = Len(kept)
            /\ \A k \in DOMAIN kept :
                   CandidateOfPattern(c.returned[k]) = expected[kept[k]]
            /\ pattern_matches = c.table_before \o c.returned

(* a detector raised in a detect_all call, the two others found three
   candidates between them, and all three were persisted and returned *)
C7_Witness ==
    /\ dlast # <<>>
    /\ dsignals # <<>>
    /\ dlast[1].conv.raised
    /\ ~dlast[1].vel.raised
    /\ ~dlast[1].gap.raised
    /\ dlast[1].failing = {}
    /\ Len(dlast[1].returned) = 3
    /\ \A k \in 1..3 : \E i \in DOMAIN pattern_matches :
           pattern_matches[i] = dlast[1].returned[k]


(***************************************************************************)
(* calculate_novelty_score called on its own                               *)
(***************************************************************************)
MaxRecent == 2

(* a recent embedding is a vector or None (a row without embedding) *)
RecentEmbeddings == SeqsUpTo(Vectors \cup {NoEmbedding}, MaxRecent)

InitNovelty ==
    /\ IdleWorkers
    /\ fnIn \in [fn : {"calculate_novelty_score"},
                 new_embedding : Vectors \cup {NoEmbedding},
                 recent_embeddings : RecentEmbeddings]
    /\ fnOut = <<>>
    /\ IdleLimiter
    /\ IdleScore
    /\ IdleCluster
    /\ IdlePipeline
    /\ IdleGen
    /\ IdleDetectors

NoveltyCall ==
    /\ fnOut = <<>>
    /\ fnOut' = <<calculate_novelty_score(fnIn.new_embedding, fnIn.recent_embeddings)>>
    /\ UNCHANGED <<wrkVars, fnIn, limVars, scoreVars, clusterVars, pipeVars, genVars, convVars, detVars>>

NextNovelty == NoveltyCall

SpecNovelty == InitNovelty /\ [][NextNovelty]_vars

(* the similarities calculate_novelty_score compares with the threshold *)
SimilaritiesOf(new_embedding, recent_embeddings) ==
    { cosine_similarity(new_embedding, recent_embeddings[k]) : k \in { k \in DOMAIN recent_embeddings : recent_embeddings[k] # NoEmbedding } }

(* C11: calculate_novelty_score returns a value between 0 and 1 for every
   new vector and every list of recent vectors, and returns 0 when the
   largest similarity is above the threshold; also when the largest
   similarity is negative. *)
C11_NoveltyInUnitRange ==
    fnOut # <<>> =>
        /\ fnOut[1] >= 0
        /\ fnOut[1] <= Scale
        /\ (/\ fnIn.new_embedding # NoEmbedding
            /\ \E x \in SimilaritiesOf(fnIn.new_embedding, fnIn.recent_embeddings) : x > NoveltyThreshold)
           => fnOut[1] = 0


(***************************************************************************)
(* calculate_velocity_score called on its own                              *)
(***************************************************************************)
MaxCount == 6

InitVelocity ==
    /\ IdleWorkers
    /\ fnIn \in [fn : {"calculate_velocity_score"},
                 count_7d : 0..MaxCount,
                 count_14d : 0..MaxCount,
                 count_30d : 0..MaxCount]
    /\ fnOut = <<>>
    /\ IdleLimiter
    /\ IdleScore
    /\ IdleCluster
    /\ IdlePipeline
    /\ IdleGen
    /\ IdleDetectors

VelocityCall ==
    /\ fnOut = <<>>
    /\ fnOut' = <<calculate_velocity_score(fnIn.count_7d, fnIn.count_14d, fnIn.count_30d)>>
    /\ UNCHANGED <<wrkVars, fnIn, limVars, scoreVars, clusterVars, pipeVars, genVars, convVars, detVars>>

NextVelocity == VelocityCall

SpecVelocity == InitVelocity /\ [][NextVelocity]_vars

(* the quantities the velocity score is stated in, in thousandths *)
WowGrowthOf(c) ==
    IF c.count_14d - c.count_7d > 0 THEN (c.count_7d * Scale) \div (c.count_14d - c.count_7d)
    ELSE Min((c.count_7d * Scale) \div 5, 3 * Scale)

AccelerationOf(c) ==
    IF c.count_30d > 0 THEN (c.count_7d * Scale * 4) \div c.count_30d ELSE Scale

(* wow_growth * sqrt(acceleration) / divisor, clamped to [0, 1] *)
VelocityOver(c, divisor) ==
    Min(Scale, (WowGrowthOf(c) * ISqrt(AccelerationOf(c) * Scale)) \div (divisor * Scale))

(* equal up to the rounding of the thousandths *)
Near(a, b) == a - b \in (0 - 2)..2

(* C12 as stated: for count_7d > 0 the result is wow_growth *
   sqrt(acceleration) / baseline_growth clamped to [0, 1], with
   baseline_growth = 2.0 and no further divisor. *)
C12_VelocityOverBaseline ==
    (fnOut # <<>> /\ fnIn.count_7d > 0) => Near(fnOut[1], VelocityOver(fnIn, 2))

(* C12 as amended: for count_7d > 0 the result is wow_growth *
   sqrt(acceleration) / baseline_growth, divided once more by 2.0, and
   then clamped to [0, 1]. *)
C12_VelocityOverBaselineHalved ==
    (fnOut # <<>> /\ fnIn.count_7d > 0) =>
        /\ Near(fnOut[1], VelocityOver(fnIn, 2 * 2))
        /\ fnOut[1] \in 0..Scale

C12_Witness ==
    /\ fnOut # <<>>
    /\ fnIn.count_7d > 0
    /\ fnIn.count_14d > fnIn.count_7d
    /\ fnOut[1] > 0
    /\ fnOut[1] < Scale
    /\ VelocityOver(fnIn, 2) = Scale


(***************************************************************************)
(* src/processors/embeddings.py: EmbeddingGenerator.generate_batch         *)
(***************************************************************************)
batch_size == 100

(* the texts of a batch: empty, whitespace only, and two texts with
   content (all far shorter than the 30000 characters kept) *)
BatchTexts == { "", " ", "a", "b" }

(* not t or len(t.strip()) == 0 *)
is_empty_text(t) == t \in { "", " " }

(* the vector the embedding service computes for a text *)
TextVector(t) == IF t = "a" THEN <<1, 0>> ELSE <<0, 1>>

(* what rate_limiter.acquire() and embeddings.create() do for a batch: the
   service answers with one vector per input, answers with one vector
   fewer, or one of the two calls raises *)
ApiOutcomes == { "ok", "short", "raise" }

Nones(n) == [k \in 1..n |-> NoEmbedding]

processed_batch_of(batch) ==
    [j \in DOMAIN batch |-> IF is_empty_text(batch[j]) THEN "" ELSE batch[j]]

non_empty_of(processed_batch) ==
    LET idx == SelectSeqIdx(processed_batch, BatchTexts \ { "", " " }, 1)
    IN  [k \in DOMAIN idx |-> processed_batch[idx[k]]]

response_data(non_empty, outcome) ==
    LET all == [k \in DOMAIN non_empty |-> TextVector(non_empty[k])]
    IN  IF outcome = "short" THEN SubSeq(all, 1, Len(all) - 1) ELSE all

(* the loop that maps the embeddings back: position j of the batch, k
   vectors of the response consumed so far; next() on an exhausted
   iterator raises StopIteration, with the results appended so far kept *)
RECURSIVE map_back(_, _, _, _, _)
map_back(processed_batch, data, j, k, results) ==
    IF j > Len(processed_batch) THEN [raised |-> FALSE, results |-> results]
    ELSE IF is_empty_text(processed_batch[j])
         THEN map_back(processed_batch, data, j + 1, k, Append(results, NoEmbedding))
         ELSE IF k >= Len(data) THEN [raised |-> TRUE, results |-> results]
              ELSE map_back(processed_batch, data, j + 1, k + 1, Append(results, data[k + 1]))

(* one iteration of the loop over the batches: the try block and its
   except clause *)
batch_results(batch, outcome, results) ==
    IF outcome = "raise" THEN results \o Nones(Len(batch))
    ELSE LET processed_batch == processed_batch_of(batch)
             non_empty == non_empty_of(processed_batch)
         IN  IF non_empty = <<>> THEN results \o Nones(Len(batch))
             ELSE LET m == map_back(processed_batch, response_data(non_empty, outcome), 1, 0, results)
                  IN  IF m.raised THEN m.results \o Nones(Len(batch)) ELSE m.results

RECURSIVE generate_batch_from(_, _, _, _)
generate_batch_from(texts, outcome, i, results) ==
    IF i >= Len(texts) THEN results
    ELSE generate_batch_from(texts, outcome, i + batch_size, batch_results(SubSeq(texts, i + 1, Min(i + batch_size, Len(texts))), outcome, results))

generate_batch(texts, outcome) == generate_batch_from(texts, outcome, 0, <<>>)

MaxTexts == 3

InitBatch ==
    /\ IdleWorkers
    /\ fnIn \in [fn : {"generate_batch"},
                 texts : SeqsUpTo(BatchTexts, MaxTexts),
                 outcome : ApiOutcomes]
    /\ fnOut = <<>>
    /\ IdleLimiter
    /\ IdleScore
    /\ IdleCluster
    /\ IdlePipeline
    /\ IdleGen
    /\ IdleDetectors

BatchCall ==
    /\ fnOut = <<>>
    /\ fnOut' = <<generate_batch(fnIn.texts, fnIn.outcome)>>
    /\ UNCHANGED <<wrkVars, fnIn, limVars, scoreVars, clusterVars, pipeVars, genVars, convVars, detVars>>

NextBatch == BatchCall

SpecBatch == InitBatch /\ [][NextBatch]_vars

(* C13: for every list of texts and every outcome of the embedding call
   (success, an exception, a response with fewer vectors than non-empty
   texts) the result of generate_batch is as long as the list of texts,
   result[i] is absent for every empty or whitespace-only texts[i], and a
   vector at result[i] is the vector of texts[i]. *)
C13_BatchKeepsPositions ==
    fnOut # <<>> =>
        /\ Len(fnOut[1]) = Len(fnIn.texts)
        /\ \A i \in DOMAIN fnIn.texts :
               /\ is_empty_text(fnIn.texts[i]) => fnOut[1][i] = NoEmbedding
               /\ fnOut[1][i] # NoEmbedding => fnOut[1][i] = TextVector(fnIn.texts[i])


(***************************************************************************)
(* src/utils/rate_limiting.py: RateLimiter.acquire                         *)
(***************************************************************************)
(* the clock counts twentieths of a second, so that the 0.1 s added to
   every sleep is two ticks *)
TicksPerSecond == 20

(* a limiter with a per-minute limit only, as the "anthropic" and "openai"
   limiters are *)
requests_per_minute == 1

MaxCallers == 3
MaxSeconds == 61

Callers == 1..MaxCallers

(* _clean_window: drop from the left the timestamps older than the window *)
RECURSIVE _clean_window(_, _, _)
_clean_window(window, seconds, t) ==
    IF window # <<>> /\ Head(window) < t - seconds * TicksPerSecond
    THEN _clean_window(Tail(window), seconds, t)
    ELSE window

(* one pass of acquire's while loop at time t: a slot is taken and the
   call returns, or the caller goes to sleep *)
acquire_pass(window, t) ==
    LET cleaned == _clean_window(window, 60, t)
        minute_ok == Len(cleaned) < requests_per_minute
    IN  IF minute_ok
        THEN [granted |-> TRUE, window |-> Append(cleaned, t), sleep |-> 0]
        ELSE LET wait_time == 60 * TicksPerSecond - (t - Head(cleaned))
             IN  [granted |-> FALSE, window |-> cleaned,
                  sleep |-> Min(wait_time + TicksPerSecond \div 10, 60 * TicksPerSecond)]

IdleCaller == [pc |-> "idle", wake |-> 0]

InitLimiter ==
    /\ IdleWorkers
    /\ _minute_window = <<>>
    /\ clock = 0
    /\ callers = [c \in Callers |-> IdleCaller]
    /\ arrivals = <<>>
    /\ IdleWindows
    /\ IdleFunctions
    /\ IdleScore
    /\ IdleCluster
    /\ IdlePipeline
    /\ IdleGen
    /\ IdleDetectors

LimiterPass(c) ==
    LET r == acquire_pass(_minute_window, clock)
    IN  /\ _minute_window' = r.window
        /\ callers' = [callers EXCEPT ![c] = IF r.granted THEN [pc |-> "granted", wake |-> 0]
                                             ELSE [pc |-> "sleeping", wake |-> clock + r.sleep]]

(* a coroutine calls acquire(): the first pass of the loop runs without
   yielding to the event loop *)
Acquire(c) ==
    /\ callers[c].pc = "idle"
    /\ arrivals' = Append(arrivals, c)
    /\ LimiterPass(c)
    /\ UNCHANGED <<wrkVars, clock, limits, _hour_window, _day_window, fnVars, scoreVars, clusterVars, pipeVars, genVars, convVars, detVars>>

(* asyncio.sleep ends and the caller runs the loop once more *)
Wake(c) ==
    /\ callers[c].pc = "sleeping"
    /\ callers[c].wake <= clock
    /\ LimiterPass(c)
    /\ UNCHANGED <<wrkVars, clock, arrivals, limits, _hour_window, _day_window, fnVars, scoreVars, clusterVars, pipeVars, genVars, convVars, detVars>>

(* time passes: by ten seconds, up to the end of a sleep, or up to one
   tick before it; a sleep that has ended is served before more time
   passes *)
Sleeping == { c \in Callers : callers[c].pc = "sleeping" }

Durations ==
    { d \in { 10 * TicksPerSecond } \cup { callers[c].wake - clock : c \in Sleeping } \cup { callers[c].wake - clock - 1 : c \in Sleeping } : d > 0 }

TimePasses(d) ==
    /\ clock + d <= MaxSeconds * TicksPerSecond
    /\ \A c \in Callers : callers[c].pc = "sleeping" => clock + d <= callers[c].wake
    /\ clock' = clock + d
    /\ UNCHANGED <<wrkVars, _minute_window, callers, arrivals, limits, _hour_window, _day_window, fnVars, scoreVars, clusterVars, pipeVars, genVars, convVars, detVars>>

NextLimiter ==
    \/ \E c \in Callers : Acquire(c)
    \/ \E c \in Callers : Wake(c)
    \/ \E d \in Durations : TimePasses(d)

SpecLimiter == InitLimiter /\ [][NextLimiter]_vars

(* position of a caller in the order of the acquire() calls *)
ArrivalOf(c) == CHOOSE k \in DOMAIN arrivals : arrivals[k] = c

(* C14: with several callers on one limiter the slots are granted in the
   order in which the callers invoked acquire(): a caller that arrived
   later is never granted a slot while a caller that arrived before it is
   still waiting (and none is dropped). *)
C14_GrantedInArrivalOrder ==
    \A w, c \in Callers :
        (callers[w].pc = "sleeping" /\ callers[c].pc = "granted") => ArrivalOf(c) < ArrivalOf(w)


(***************************************************************************)
(* the external calls of the pipeline's stages and with_retry              *)
(***************************************************************************)
max_attempts == 3

TransportErrors == { "ConnectionError", "TimeoutError" }

(* what one call of messages.create, embeddings.create or the store's
   insert does: it answers well, the model answers with malformed JSON, or
   the call raises a connection or timeout error *)
CallOutcomes(stage) ==
    IF stage = "classify" THEN { "ok", "badjson" } \cup TransportErrors
    ELSE { "ok" } \cup TransportErrors

Stages == { "classify", "embed", "store" }

(* with_retry(max_attempts = 3) around a call whose k-th attempt ends as
   outcomes[k]: the call is made again after a connection or timeout error
   until max_attempts calls were made; the number of calls and the outcome
   of the last one *)
RECURSIVE with_retry(_, _)
with_retry(outcomes, attempt) ==
    IF outcomes[attempt] \in TransportErrors /\ attempt < max_attempts
    THEN with_retry(outcomes, attempt + 1)
    ELSE [attempts |-> attempt, outcome |-> outcomes[attempt]]

(* SignalClassifier.classify: one call of messages.create inside try; the
   except clauses return the default classification *)
classify_stage(outcomes) ==
    [attempts |-> 1, result |-> IF outcomes[1] = "ok" THEN "value" ELSE "default"]

(* EmbeddingGenerator.generate: one call of embeddings.create inside try;
   the except clause returns None *)
embed_stage(outcomes) ==
    [attempts |-> 1, result |-> IF outcomes[1] = "ok" THEN "value" ELSE "default"]

(* process_signal: one call of insert_processed_signal inside try; the
   except clause returns None, the failure of the signal *)
store_stage(outcomes) ==
    [attempts |-> 1, result |-> IF outcomes[1] = "ok" THEN "value" ELSE "failure"]

run_stage(stage, outcomes) ==
    IF stage = "classify" THEN classify_stage(outcomes)
    ELSE IF stage = "embed" THEN embed_stage(outcomes)
    ELSE store_stage(outcomes)

InitStage ==
    /\ IdleWorkers
    /\ \E stage \in Stages :
           fnIn \in [fn : {"stage"}, stage : {stage}, outcomes : [1..max_attempts -> CallOutcomes(stage)]]
    /\ fnOut = <<>>
    /\ IdleLimiter
    /\ IdleScore
    /\ IdleCluster
    /\ IdlePipeline
    /\ IdleGen
    /\ IdleDetectors

StageCall ==
    /\ fnOut = <<>>
    /\ fnOut' = <<run_stage(fnIn.stage, fnIn.outcomes)>>
    /\ UNCHANGED <<wrkVars, fnIn, limVars, scoreVars, clusterVars, pipeVars, genVars, convVars, detVars>>

NextStage == StageCall

SpecStage == InitStage /\ [][NextStage]_vars

(* C15: a connection or timeout error raised by a language-model,
   embedding or store call of the pipeline is retried, up to 3 attempts,
   before the stage fails, and a retry that succeeds gives the stage its
   value; malformed model output is not retried and gives the stage's
   default at once. *)
C15_TransportErrorsRetried ==
    fnOut # <<>> =>
        LET r == with_retry(fnIn.outcomes, 1)
        IN  /\ fnOut[1].attempts = r.attempts
            /\ r.outcome = "ok" => fnOut[1].result = "value"
            /\ fnIn.outcomes[1] = "badjson" => (fnOut[1].attempts = 1 /\ fnOut[1].result = "default")


(***************************************************************************)
(* src/patterns/velocity_spike.py                                          *)
(***************************************************************************)
(* a processed signal as the velocity spike and gap detectors read it *)
PatSignal(id, p) ==
    [id |-> id, raw_signal_id |-> id, signal_type |-> p.signal_type,
     keywords |-> p.keywords, velocity_score |-> p.velocity_score,
     embedding |-> p.embedding,
     thesis_scores |-> [AllOnes EXCEPT !["demand_evidence"] = p.demand_evidence]]

(* the keys of a dict in the order of their first insertion *)
RECURSIVE KeysInOrder(_, _)
KeysInOrder(keys, seen) ==
    IF keys = <<>> THEN <<>>
    ELSE IF Head(keys) \in seen THEN KeysInOrder(Tail(keys), seen)
    ELSE <<Head(keys)>> \o KeysInOrder(Tail(keys), seen \cup {Head(keys)})

(* the elements of s at the positions in idxset, in list order *)
Where(s, idxset) ==
    LET idx == SelectSeqIdx([i \in DOMAIN s |-> IF i \in idxset THEN "in" ELSE "out"], {"in"}, 1)
    IN  [k \in DOMAIN idx |-> s[idx[k]]]

RECURSIVE Flatten(_)
Flatten(ss) == IF ss = <<>> THEN <<>> ELSE Head(ss) \o Flatten(Tail(ss))

velocity_threshold == 800

(* the topic of a signal: its first keyword, or its signal type *)
topic_of(signal) ==
    IF signal.keywords # <<>> THEN signal.keywords[1] ELSE signal.signal_type

(* VelocitySpikeDetector._group_by_topic: the groups in dict order *)
_group_by_topic(signals) ==
    LET keys == KeysInOrder([i \in DOMAIN signals |-> topic_of(signals[i])], {})
    IN  [k \in DOMAIN keys |-> Where(signals, { i \in DOMAIN signals : topic_of(signals[i]) = keys[k] })]

(* the pattern of a topic with its opportunity score left uncapped *)
spike_pattern_uncapped(topic_signals) ==
    LET n == Len(topic_signals)
        avg_velocity == SeqSum([i \in DOMAIN topic_signals |-> topic_signals[i].velocity_score]) \div n
    IN  PatternMatchCreate("velocity_spike", [i \in DOMAIN topic_signals |-> topic_signals[i].id], Min(Scale, avg_velocity), (avg_velocity * (Scale + (n * Scale) \div 10)) \div Scale)

(* the pattern built for one topic *)
spike_pattern(topic_signals) ==
    LET n == Len(topic_signals)
        avg_velocity == SeqSum([i \in DOMAIN topic_signals |-> topic_signals[i].velocity_score]) \div n
        opportunity_score == Min(Scale, (avg_velocity * (Scale + (n * Scale) \div 10)) \div Scale)
    IN  PatternMatchCreate("velocity_spike", [i \in DOMAIN topic_signals |-> topic_signals[i].id], Min(Scale, avg_velocity), opportunity_score)

velocity_spike_detect_any_size(signals, threshold) ==
    LET high_velocity_signals == Where(signals, { i \in DOMAIN signals : signals[i].velocity_score \notin {None, 0} /\ signals[i].velocity_score >= threshold })
    IN  IF high_velocity_signals = <<>> THEN <<>>
        ELSE LET grouped == _group_by_topic(high_velocity_signals)
             IN  Flatten([k \in DOMAIN grouped |-> << spike_pattern(grouped[k]) >>])

(* VelocitySpikeDetector.detect *)
velocity_spike_detect(signals, threshold) ==
    LET high_velocity_signals == Where(signals, { i \in DOMAIN signals : signals[i].velocity_score \notin {None, 0} /\ signals[i].velocity_score >= threshold })
    IN  IF high_velocity_signals = <<>> THEN <<>>
        ELSE LET grouped == _group_by_topic(high_velocity_signals)
             IN  Flatten([k \in DOMAIN grouped |-> IF Len(grouped[k]) < 2 THEN <<>> ELSE << spike_pattern(grouped[k]) >>])

(***************************************************************************)
(* src/patterns/gap_detector.py                                            *)
(***************************************************************************)
top_k == 10

(* average_embedding, components in thousandths; NoEmbedding for None *)
average_embedding(embeddings) ==
    LET valid_embeddings == Where(embeddings, { i \in DOMAIN embeddings : embeddings[i] # NoEmbedding })
        n == Len(valid_embeddings)
    IN  IF n = 0 THEN NoEmbedding
        ELSE << (SeqSum([i \in 1..n |-> valid_embeddings[i][1]]) * Scale) \div n,
                (SeqSum([i \in 1..n |-> valid_embeddings[i][2]]) * Scale) \div n >>

(* find_similar_signals: the positions of the matching embeddings (the
   caller uses only their number) *)
find_similar_signals(query_embedding, signal_embeddings, threshold) ==
    IF query_embedding = NoEmbedding \/ signal_embeddings = <<>> THEN <<>>
    ELSE Take(SelectSeqIdx([i \in DOMAIN signal_embeddings |->
                  IF signal_embeddings[i] # NoEmbedding /\ cosine_similarity(query_embedding, signal_embeddings[i]) >= threshold
                  THEN "in" ELSE "out"], {"in"}, 1), top_k)

(* what the language model does on the gap analysis call: kind = "error",
   "badjson", or "ok" with is_real_gap, worth_pursuing, confidence
   (thousandths) and pain_severity *)
GapResp(kind, is_real_gap, worth_pursuing, confidence, pain_severity) ==
    [kind |-> kind, is_real_gap |-> is_real_gap, worth_pursuing |-> worth_pursuing,
     confidence |-> confidence, pain_severity |-> pain_severity]

GapResponses ==
    { GapResp("error", FALSE, FALSE, 0, 0), GapResp("badjson", FALSE, FALSE, 0, 0),
      GapResp("ok", FALSE, TRUE, 900, 8), GapResp("ok", TRUE, FALSE, 900, 8) }
        \cup { GapResp("ok", TRUE, TRUE, c, p) : c \in { 500, 1500, 0 - 200 }, p \in { 8, 12 } }

(* complaint key of _cluster_complaints *)
complaint_key(complaint) ==
    IF complaint.keywords # <<>> THEN KeywordLower(complaint.keywords[1]) ELSE "general"

(* GapDetector._cluster_complaints: the clusters in dict order *)
_cluster_complaints(complaints) ==
    LET keys == KeysInOrder([i \in DOMAIN complaints |-> complaint_key(complaints[i])], {})
    IN  [k \in DOMAIN keys |-> Where(complaints, { i \in DOMAIN complaints : complaint_key(complaints[i]) = keys[k] })]

(* the demand_evidence entry of GapDetector._aggregate_thesis_scores, in
   thousandths; None when no signal has the score *)
gap_demand_evidence(signals) ==
    LET v == Where(signals, { i \in DOMAIN signals : signals[i].thesis_scores["demand_evidence"] \notin {None, 0} })
    IN  IF v = <<>> THEN None
        ELSE SeqSum([k \in DOMAIN v |-> v[k].thesis_scores["demand_evidence"] * Scale]) \div Len(v)

(* _analyze_gap without the boost for high demand evidence *)
_analyze_gap_unboosted(complaints, resp) ==
    IF resp.kind # "ok" THEN <<>>
    ELSE IF ~resp.is_real_gap THEN <<>>
    ELSE IF ~resp.worth_pursuing THEN <<>>
    ELSE LET base == (((resp.confidence * resp.pain_severity) \div 10) * Min(Scale, (Len(complaints) * Scale) \div 3)) \div Scale
         IN  << PatternMatchCreate("gap", [i \in DOMAIN complaints |-> complaints[i].id], resp.confidence, Min(Scale, base)) >>

(* GapDetector._analyze_gap: <<>> for None (the builder activity goes
   into the prompt only) *)
_analyze_gap(complaints, resp) ==
    IF resp.kind # "ok" THEN <<>>
    ELSE IF ~resp.is_real_gap THEN <<>>
    ELSE IF ~resp.worth_pursuing THEN <<>>
    ELSE LET confidence == resp.confidence
             base == (((confidence * resp.pain_severity) \div 10) * Min(Scale, (Len(complaints) * Scale) \div 3)) \div Scale
             demand == gap_demand_evidence(complaints)
             opportunity_score == IF demand # None /\ demand >= 7 * Scale THEN (base * 12) \div 10 ELSE base
         IN  << PatternMatchCreate("gap", [i \in DOMAIN complaints |-> complaints[i].id], confidence, Min(Scale, opportunity_score)) >>

(* the body of detect's loop for one cluster *)
gap_of_cluster(cluster, builder_signals, resp, threshold) ==
    IF Len(cluster) < 1 THEN <<>>
    ELSE LET cluster_embedding == average_embedding([i \in DOMAIN cluster |-> cluster[i].embedding])
             builder_matches == IF cluster_embedding # NoEmbedding
                                THEN find_similar_signals(cluster_embedding, Where([i \in DOMAIN builder_signals |-> builder_signals[i].embedding], { i \in DOMAIN builder_signals : builder_signals[i].embedding # NoEmbedding }), threshold)
                                ELSE <<>>
         IN  IF Len(builder_matches) <= 1 THEN _analyze_gap(cluster, resp) ELSE <<>>

(* GapDetector.detect *)
gap_detect(signals, resp, threshold) ==
    LET complaint_signals == Where(signals, { i \in DOMAIN signals : signals[i].signal_type = "complaint" })
        builder_signals == Where(signals, { i \in DOMAIN signals : signals[i].signal_type = "builder_activity" })
    IN  IF complaint_signals = <<>> THEN <<>>
        ELSE LET complaint_clusters == _cluster_complaints(complaint_signals)
             IN  Flatten([k \in DOMAIN complaint_clusters |-> gap_of_cluster(complaint_clusters[k], builder_signals, resp, threshold)])

(***************************************************************************)
(* detect_all with the three detectors run on the signals                  *)
(***************************************************************************)
MaxKindSignals == 3

SignalProfile(signal_type, keywords, velocity_score, embedding, demand_evidence) ==
    [signal_type |-> signal_type, keywords |-> keywords, velocity_score |-> velocity_score,
     embedding |-> embedding, demand_evidence |-> demand_evidence]

SignalProfiles ==
    { SignalProfile("complaint", <<"k1">>, 900, <<1, 0>>, 8),
      SignalProfile("complaint", <<"K1">>, 900, <<1, 0>>, 1),
      SignalProfile("complaint", <<>>, 500, NoEmbedding, 1),
      SignalProfile("builder_activity", <<"k1">>, 900, <<1, 0>>, 1),
      SignalProfile("builder_activity", <<"k2">>, None, <<0, 1>>, 1),
      SignalProfile("trend", <<"k1">>, Scale, <<4, 3>>, 1) }

InitKinds ==
    /\ IdleWorkers
    /\ \E n \in 0..MaxKindSignals : \E p \in [1..n -> SignalProfiles] :
           dsignals = [i \in 1..n |-> PatSignal(i, p[i])]
    /\ pattern_matches = <<>>
    /\ druns = 0
    /\ dlast = <<>>
    /\ csignals = <<>>
    /\ cout = <<>>
    /\ IdleFunctions
    /\ IdleLimiter
    /\ IdleScore
    /\ IdleCluster
    /\ IdlePipeline
    /\ IdleGen

(* one detect_all(signals) in which no detector raises and every insert
   succeeds *)
DetectKinds(conv_resp, gap_resp) ==
    /\ druns = 0
    /\ LET conv == convergence_result(FALSE, dsignals, conv_resp)
           vel == DetectorResult(FALSE, velocity_spike_detect(dsignals, velocity_threshold))
           gap == DetectorResult(FALSE, gap_detect(dsignals, gap_resp, similarity_threshold))
           out == detect_all(dsignals, conv, vel, gap, {}, pattern_matches)
       IN  /\ pattern_matches' = out.table
           /\ dlast' = << [conv |-> conv, vel |-> vel, gap |-> gap, gap_resp |-> gap_resp, returned |-> out.returned] >>
    /\ druns' = druns + 1
    /\ UNCHANGED <<wrkVars, dsignals, convVars, fnVars, limVars, scoreVars, clusterVars, pipeVars, genVars>>

NextKinds == \E conv_resp \in DetectConvResponses : \E gap_resp \in GapResponses : DetectKinds(conv_resp, gap_resp)

SpecKinds == InitKinds /\ [][NextKinds]_vars

(* C16 as stated: every pattern a detector returned and the orchestrator
   persisted has at least 2 contributing record IDs, whatever its kind,
   and its signal_count is the number of its record IDs. *)
C16_AtLeastTwoRecords ==
    \A i \in DOMAIN pattern_matches :
        /\ Len(pattern_matches[i].signal_ids) >= 2
        /\ pattern_matches[i].signal_count = Len(pattern_matches[i].signal_ids)

(* C16 as amended: a persisted convergence or velocity_spike pattern has
   at least 2 contributing record IDs, a persisted gap pattern at least 1
   (one complaint alone can form a gap), and signal_count is the number
   of record IDs. *)
C16_TwoRecordsButGapOne ==
    \A i \in DOMAIN pattern_matches :
        /\ pattern_matches[i].pattern_type \in {"convergence", "velocity_spike"} => Len(pattern_matches[i].signal_ids) >= 2
        /\ pattern_matches[i].pattern_type = "gap" => Len(pattern_matches[i].signal_ids) >= 1
        /\ pattern_matches[i].signal_count = Len(pattern_matches[i].signal_ids)
        /\ \A k \in DOMAIN pattern_matches[i].signal_ids : \E s \in DOMAIN dsignals : dsignals[s].id = pattern_matches[i].signal_ids[k]

C16_Witness ==
    /\ \E i \in DOMAIN pattern_matches :
           pattern_matches[i].pattern_type = "gap" /\ Len(pattern_matches[i].signal_ids) = 1
    /\ \E i \in DOMAIN pattern_matches :
           pattern_matches[i].pattern_type = "velocity_spike" /\ Len(pattern_matches[i].signal_ids) = 2
    /\ \E s \in DOMAIN dsignals : dsignals[s].velocity_score = Scale

(* C17: every pattern a detector produced has confidence_score and
   opportunity_score between 0 and 1, whatever the language model
   answered (a confidence or pain_severity outside its range included)
   and whatever the input records. *)
C17_ScoresInUnitRange ==
    dlast # <<>> =>
        \A r \in {dlast[1].conv, dlast[1].vel, dlast[1].gap} : \A k \in DOMAIN r.patterns :
            /\ r.patterns[k].confidence_score \in 0..Scale
            /\ r.patterns[k].opportunity_score \in 0..Scale


(***************************************************************************)
(* the opportunities the generator stores                                  *)
(***************************************************************************)
(* the IDs of the disqualified processed signals *)
DisqualifiedIds == { i \in DOMAIN gsignals : gsignals[i] }

(* C18: every opportunity the generator stored references exactly one
   originating pattern (pattern_ids = [pattern.id]) and its signal IDs are
   the filtered supporting set: none of them is the ID of a disqualified
   processed signal. *)
C18_OpportunityTracesFilteredRecords ==
    /\ \A k \in DOMAIN opportunities :
           /\ Len(opportunities[k].pattern_ids) = 1
           /\ Range(opportunities[k].signal_ids) \cap DisqualifiedIds = {}
    /\ (glast # <<>> /\ glast[1].result # <<>>) =>
           glast[1].result[1].pattern_ids = << glast[1].pattern.id >>


(***************************************************************************)
(* the status of the stored patterns: the operations of the core that      *)
(* read or write the pattern_matches table, and the API's update           *)
(***************************************************************************)
MaxUpdates == 1
MaxStoredCalls == 1

PatternStatuses == { "new", "reviewed", "investigating", "archived" }

(* Database.update_pattern_status *)
update_pattern_status(table, pattern_id, status) ==
    [i \in DOMAIN table |-> IF table[i].id = pattern_id THEN [table[i] EXCEPT !.status = status] ELSE table[i]]

(* Database.get_patterns(status, min_score) *)
get_patterns(table, status, min_score) ==
    Where(table, { i \in DOMAIN table : table[i].status = status /\ table[i].opportunity_score >= min_score })

(* PatternDetector.detect_anomalies: the velocity spike detector alone,
   not guarded; every candidate is inserted in its own try/except *)
detect_anomalies(signals, vel, failing, table) ==
    IF signals = <<>> THEN DetectOutcome(table, {}, <<>>, FALSE)
    ELSE IF vel.raised THEN DetectOutcome(table, {"velocity"}, <<>>, TRUE)
    ELSE LET s == store_loop(vel.patterns, 1, failing, table)
         IN  DetectOutcome(s.table, {"velocity"}, s.stored, FALSE)

InitStatus ==
    /\ IdleWorkers
    /\ dsignals \in DetectSignalLists
    /\ pattern_matches = <<>>
    /\ druns = 0
    /\ dlast = <<>>
    /\ csignals = <<>>
    /\ cout = <<>>
    /\ gsignals = [i \in 1..MaxGenSignals |-> FALSE]
    /\ opportunities = <<>>
    /\ gen = [_last_error |-> NoError, _errors |-> <<>>]
    /\ genAcquires = 0
    /\ genCalls = 0
    /\ glast = <<>>
    /\ grun = IdleGenRun
    /\ IdleScore
    /\ IdleCluster
    /\ IdlePipeline
    /\ IdleFunctions
    /\ IdleLimiter

(* one call of detect_anomalies *)
DetectAnomalies(vel, failing) ==
    /\ druns < MaxDetectRuns
    /\ LET out == detect_anomalies(dsignals, vel, failing, pattern_matches)
       IN  /\ pattern_matches' = out.table
           /\ dlast' = <<[vel |-> vel, failing |-> failing, ran |-> out.ran, returned |-> out.returned, raised |-> out.raised, table_before |-> pattern_matches]>>
    /\ druns' = druns + 1
    /\ UNCHANGED <<wrkVars, dsignals, convVars, scoreVars, clusterVars, fnVars, limVars, pipeVars, genVars>>

(* PATCH /patterns/{pattern_id}: a user sets the status of a pattern *)
UpdatePatternStatus(pattern_id, status) ==
    /\ Cardinality({ i \in DOMAIN pattern_matches : pattern_matches[i].status # "new" }) < MaxUpdates
    /\ \E i \in DOMAIN pattern_matches : pattern_matches[i].id = pattern_id /\ pattern_matches[i].status # status
    /\ pattern_matches' = update_pattern_status(pattern_matches, pattern_id, status)
    /\ UNCHANGED <<wrkVars, dsignals, druns, dlast, convVars, scoreVars, clusterVars, fnVars, limVars, pipeVars, genVars>>

(* the opportunity generator run on a stored pattern that is new and
   scores at least 0.5 *)
GenerateFromStored(resp, insert_ok) ==
    /\ genCalls < MaxStoredCalls
    /\ \E k \in DOMAIN get_patterns(pattern_matches, "new", 500) :
           GenerateFromPattern(get_patterns(pattern_matches, "new", 500)[k], resp, insert_ok)

NextStatus ==
    \/ \E gap \in GapResults :
           LET conv == convergence_result(FALSE, dsignals, ConvResp("error", FALSE, 0, ""))
           IN  DetectAll(conv, DetectorResult(FALSE, <<>>), gap, {})
    \/ \E vel \in VelocityResults : \E failing \in { {}, {1} } : DetectAnomalies(vel, failing)
    \/ \E i \in DOMAIN pattern_matches, status \in {"new", "archived"} : UpdatePatternStatus(pattern_matches[i].id, status)
    \/ \E resp \in {"ok", "error"} : GenerateFromStored(resp, TRUE)

SpecStatus == InitStatus /\ [][NextStatus]_vars

(* C19: a pattern is persisted with status new, and no operation of the
   core (detect_all, detect_anomalies, the opportunity generator) changes
   the status of a persisted pattern: a step changes the status of a
   stored pattern only if it is the update of the API. *)
C19_StatusChangedOnlyByUpdate ==
    [][ /\ \A i \in DOMAIN pattern_matches' : i \notin DOMAIN pattern_matches => pattern_matches'[i].status = "new"
        /\ (\E i \in DOMAIN pattern_matches : i \notin DOMAIN pattern_matches' \/ pattern_matches'[i].status # pattern_matches[i].status)
               => \E id \in { pattern_matches[i].id : i \in DOMAIN pattern_matches }, status \in PatternStatuses : UpdatePatternStatus(id, status) ]_vars

(* a user archived or reviewed a pattern, and detect_all or
   detect_anomalies ran again and the generator stored an opportunity
   afterwards: the pattern kept the user's status and the later patterns
   are new *)
C19_Witness ==
    /\ druns = MaxDetectRuns
    /\ opportunities # <<>>
    /\ \E i, j \in DOMAIN pattern_matches :
           /\ i < j
           /\ pattern_matches[i].status # "new"
           /\ pattern_matches[j].status = "new"
           /\ i \in DOMAIN dlast[1].table_before
           /\ dlast[1].table_before[i].status # "new"


(***************************************************************************)
(* src/patterns/timing.py and the storing loop of detect_all, step by step *)
(***************************************************************************)
(* what the language model does on the timing call *)
TimingResponses == { "ok", "badjson", "error" }

analyze_raising(resp) ==
    IF resp = "ok" THEN [raised |-> FALSE, timing |-> "analysed"]
    ELSE [raised |-> TRUE, timing |-> "none"]

(* TimingAnalyzer.analyze: the whole body is inside try, and both except
   clauses return _default_timing() *)
analyze(resp) ==
    IF resp = "ok" THEN [raised |-> FALSE, timing |-> "analysed"]
    ELSE [raised |-> FALSE, timing |-> "default"]

(* the position of detect_all in its storing loop: the candidates, the
   index k of the current one, whether its insert or its timing analysis
   is next, the patterns stored so far, the candidates whose insert
   failed and the outcomes of the timing analyses *)
StoreState(candidates, k, phase, stored, failed, timings, table_before) ==
    [candidates |-> candidates, k |-> k, phase |-> phase, stored |-> stored,
     failed |-> failed, timings |-> timings, table_before |-> table_before]

InitStore ==
    /\ IdleWorkers
    /\ dsignals \in DetectSignalLists
    /\ pattern_matches = <<>>
    /\ druns = 0
    /\ dlast = <<>>
    /\ csignals = <<>>
    /\ cout = <<>>
    /\ IdleScore
    /\ IdleCluster
    /\ IdlePipeline
    /\ IdleFunctions
    /\ IdleLimiter
    /\ IdleGen

(* detect_all up to its storing loop: the detectors ran *)
StartStore(vel, gap) ==
    /\ druns < MaxDetectRuns
    /\ IF dlast = <<>> THEN TRUE ELSE dlast[1].phase = "done"
    /\ LET conv == convergence_result(FALSE, dsignals, ConvResp("error", FALSE, 0, ""))
           candidates == IF dsignals = <<>> THEN <<>> ELSE all_patterns(conv, vel, gap)
       IN  dlast' = << StoreState(candidates, 1, IF candidates = <<>> THEN "done" ELSE "insert", <<>>, {}, <<>>, pattern_matches) >>
    /\ druns' = druns + 1
    /\ UNCHANGED <<wrkVars, dsignals, pattern_matches, convVars, scoreVars, clusterVars, fnVars, limVars, pipeVars, genVars>>

AfterCandidate(c) == IF c.k = Len(c.candidates) THEN "done" ELSE "insert"

(* db.insert_pattern(pattern_create): it stores the pattern, or it raises
   and the except clause of the loop goes on to the next candidate *)
InsertStep(insert_ok) ==
    /\ dlast # <<>>
    /\ dlast[1].phase = "insert"
    /\ LET c == dlast[1]
       IN  IF insert_ok
           THEN /\ pattern_matches' = Append(pattern_matches, insert_pattern(pattern_matches, c.candidates[c.k]))
                /\ dlast' = << [c EXCEPT !.phase = "timing"] >>
           ELSE /\ pattern_matches' = pattern_matches
                /\ dlast' = << [c EXCEPT !.k = c.k + 1, !.phase = AfterCandidate(c), !.failed = c.failed \cup {c.k}] >>
    /\ UNCHANGED <<wrkVars, dsignals, druns, convVars, scoreVars, clusterVars, fnVars, limVars, pipeVars, genVars>>

(* timing_analyzer.analyze(pattern, related_signals), then
   stored_patterns.append(pattern); were analyze to raise, the except
   clause of the loop would skip the append *)
TimingStep(resp) ==
    /\ dlast # <<>>
    /\ dlast[1].phase = "timing"
    /\ LET c == dlast[1]
           timing == analyze(resp)
           pattern == pattern_matches[Len(pattern_matches)]
       IN  dlast' = << [c EXCEPT !.k = c.k + 1, !.phase = AfterCandidate(c),
                                 !.stored = IF timing.raised THEN c.stored ELSE Append(c.stored, pattern),
                                 !.timings = Append(c.timings, [k |-> c.k, resp |-> resp, timing |-> timing.timing])] >>
    /\ UNCHANGED <<wrkVars, dsignals, pattern_matches, druns, convVars, scoreVars, clusterVars, fnVars, limVars, pipeVars, genVars>>

NextStore ==
    \/ \E vel \in VelocityResults \ {DetectorResult(TRUE, <<>>)}, gap \in GapResults \ {DetectorResult(TRUE, <<>>)} : StartStore(vel, gap)
    \/ \E insert_ok \in BOOLEAN : InsertStep(insert_ok)
    \/ \E resp \in TimingResponses : TimingStep(resp)

SpecStore == InitStore /\ [][NextStore]_vars

(* the candidates of the current detect_all call whose insert did not
   fail, up to candidate n *)
InsertedUpTo(c, n) == Where(c.candidates, { k \in 1..n : k \notin c.failed })

(* C20: detect_all persists a candidate before it runs the candidate's
   timing analysis; a failing timing analysis (call error or malformed
   output) keeps neither that pattern nor a later candidate from being
   persisted and returned; a failed insert does not stop the inserts of
   the following candidates. *)
C20_PersistedBeforeTimingAndNeverBlocked ==
    dlast # <<>> =>
        LET c == dlast[1]
            done == IF c.phase = "done" THEN Len(c.candidates) ELSE c.k - 1
            expected == InsertedUpTo(c, done)
        IN  /\ c.phase = "timing" =>
                /\ pattern_matches # <<>>
                /\ CandidateOfPattern(pattern_matches[Len(pattern_matches)]) = c.candidates[c.k]
                /\ \A t \in DOMAIN c.timings : c.timings[t].k < c.k
            /\ Len(c.stored) = Len(expected)
            /\ \A i \in DOMAIN expected : CandidateOfPattern(c.stored[i]) = expected[i]
            /\ pattern_matches = c.table_before \o c.stored \o (IF c.phase = "timing" THEN << pattern_matches[Len(pattern_matches)] >> ELSE <<>>)

(* a detect_all call ended in which the insert of the first candidate
   failed, the timing analysis of the second failed, and the second and
   the third candidate were persisted and returned *)
C20_Witness ==
    /\ dlast # <<>>
    /\ dlast[1].phase = "done"
    /\ Len(dlast[1].candidates) = 3
    /\ dlast[1].failed = {1}
    /\ Len(dlast[1].stored) = 2
    /\ dlast[1].timings[1].resp # "ok"
    /\ dlast[1].timings[1].timing = "default"
    /\ Len(pattern_matches) = Len(dlast[1].table_before) + 2

(***************************************************************************)
(* _infer_timing_stage, alone and inside process_signal.  The tracker    *)
(* lives in memory for the life of the process, so a call finds it with  *)
(* the mentions earlier signals left.                                     *)
(***************************************************************************)
MaxMentions == 5

(* the tracker after n earlier mentions of every keyword at time 0 *)
TrackerWith(n) == [k \in TrackerKeys |-> [i \in 1..n |-> 0]]

(* two signals with embeddings 0.6 alike, one keyword each or two *)
TimingScenarios ==
    { Scenario(ClsPet, RespOkSeven, EmbResp("ok", <<1, 0>>)),
      Scenario(ClsHealth, RespOkSeven, EmbResp("ok", <<3, 4>>)) }

(* scores on both sides of the two thresholds, in thousandths *)
NoveltyEdges == { 0, 700, 701, Scale }
VelocityEdges == { 0, 500, 501, Scale }

InitTiming ==
    /\ IdleWorkers
    /\ scen \in [1..MaxRaw -> TimingScenarios]
    /\ processed = <<>>
    /\ \E n \in {0, MaxMentions - 1, MaxMentions} : counts = TrackerWith(n)
    /\ now = 0
    /\ run = IdleRun
    /\ calls = 0
    /\ last = <<>>
    /\ IdleScore
    /\ IdleCluster
    /\ IdleGen
    /\ IdleDetectors
    /\ IdleFunctions
    /\ IdleLimiter

(* _infer_timing_stage called on a pair of scores *)
InferTimingStage(novelty_score, velocity_score) ==
    /\ fnIn' = [fn |-> "_infer_timing_stage", novelty_score |-> novelty_score,
                velocity_score |-> velocity_score]
    /\ fnOut' = <<_infer_timing_stage(velocity_score, novelty_score)>>
    /\ UNCHANGED <<wrkVars, pipeVars, scoreVars, clusterVars, limVars, genVars, convVars, detVars>>

NextTiming ==
    \/ \E raw \in 1..MaxRaw, fault \in {"none", "insert"} : DirectCall(raw, fault)
    \/ \E n \in NoveltyEdges, v \in VelocityEdges : InferTimingStage(n, v)

SpecTiming == InitTiming /\ [][NextTiming]_vars

(* the decision table of the timing stage, as a relation *)
StageTable ==
    { <<TRUE, TRUE, "emerging">>, <<TRUE, FALSE, "early">>,
      <<FALSE, TRUE, "growing">>, <<FALSE, FALSE, "crowded">> }

TableAgrees(novelty_score, velocity_score, stage) ==
    <<~(novelty_score <= 700), ~(velocity_score <= 500), stage>> \in StageTable

(* C21: _infer_timing_stage answers by the fixed table with strict
   thresholds (novelty > 0.7, velocity > 0.5), and every stored row and
   every returned record carries the stage of its own novelty and
   velocity scores *)
C21_TimingStageByTable ==
    /\ fnOut # <<>> => TableAgrees(fnIn.novelty_score, fnIn.velocity_score, fnOut[1])
    /\ \A i \in DOMAIN processed :
          TableAgrees(processed[i].novelty_score, processed[i].velocity_score,
                      processed[i].timing_stage)
    /\ (last # <<>> /\ last[1].result # <<>>) =>
          TableAgrees(last[1].result[1].novelty_score,
                      last[1].result[1].velocity_score,
                      last[1].result[1].timing_stage)

(* a stored row at velocity exactly 0.5 (low), another above it, and a
   call at novelty exactly 0.7 *)
C21_Witness ==
    /\ fnOut # <<>>
    /\ fnIn.novelty_score = 700
    /\ \E i \in DOMAIN processed : processed[i].velocity_score = 500
    /\ \E i \in DOMAIN processed : processed[i].timing_stage = "growing"

(***************************************************************************)
(* VelocitySpikeDetector.detect on its own                                 *)
(***************************************************************************)
MaxSpikeSignals == 3

(* the thresholds the callers pass: detect_all the default 0.8,
   detect_anomalies 0.9 *)
SpikeThresholds == { velocity_threshold, 900 }

SpikeKeywords == { <<"k1">>, <<"k2", "k1">>, <<>> }
SpikeVelocities == { None, 799, 800, 950 }

(* the signals of a call: a trend with or without keywords, at a velocity
   below, at or above the threshold, or with no velocity score *)
SpikeProfiles ==
    { SignalProfile("trend", k, v, NoEmbedding, 1) : k \in SpikeKeywords, v \in SpikeVelocities }
    \cup { SignalProfile("complaint", <<>>, v, NoEmbedding, 1) : v \in {800, 950} }

InitSpike ==
    /\ IdleWorkers
    /\ \E n \in 0..MaxSpikeSignals : \E p \in [1..n -> SpikeProfiles] : \E th \in SpikeThresholds :
           fnIn = [fn |-> "velocity_spike_detect",
                   signals |-> [i \in 1..n |-> PatSignal(i, p[i])],
                   threshold |-> th]
    /\ fnOut = <<>>
    /\ IdleLimiter
    /\ IdleScore
    /\ IdleCluster
    /\ IdlePipeline
    /\ IdleGen
    /\ IdleDetectors

(* velocity_detector.detect(signals, threshold) *)
SpikeCall ==
    /\ fnOut = <<>>
    /\ fnOut' = << velocity_spike_detect(fnIn.signals, fnIn.threshold) >>
    /\ UNCHANGED <<wrkVars, fnIn, limVars, scoreVars, clusterVars, pipeVars, genVars, convVars, detVars>>

NextSpike == SpikeCall

SpecSpike == InitSpike /\ [][NextSpike]_vars

(* the records at or above the threshold, and their primary keyword *)
SpikeEligible == { i \in DOMAIN fnIn.signals : fnIn.signals[i].velocity_score # None /\ fnIn.signals[i].velocity_score >= fnIn.threshold }

PrimaryKeyword(i) == IF Len(fnIn.signals[i].keywords) >= 1 THEN Head(fnIn.signals[i].keywords) ELSE fnIn.signals[i].signal_type

(* the groups of at least 2 such records sharing a primary keyword *)
SpikeGroups == { g \in { { i \in SpikeEligible : PrimaryKeyword(i) = PrimaryKeyword(j) } : j \in SpikeEligible } : Cardinality(g) >= 2 }

(* min(1, mean_velocity * (1 + group_size/10)) of a group, in thousandths *)
SpikeScore(g) ==
    LET total == SeqSum([i \in DOMAIN fnIn.signals |-> IF i \in g THEN fnIn.signals[i].velocity_score ELSE 0])
        n == Cardinality(g)
    IN  Min(Scale, (total * (10 + n)) \div (10 * n))

(* C22: VelocitySpikeDetector.detect returns exactly one pattern for each
   group of at least 2 records at or above the threshold that share a
   primary keyword, with opportunity score
   min(1, mean_velocity * (1 + group_size/10)), and nothing else *)
C22_OnePatternPerSpikeGroup ==
    fnOut # <<>> =>
        /\ Len(fnOut[1]) = Cardinality(SpikeGroups)
        /\ \A g \in SpikeGroups :
              \E k \in DOMAIN fnOut[1] :
                 /\ Range(fnOut[1][k].signal_ids) = { fnIn.signals[i].id : i \in g }
                 /\ Len(fnOut[1][k].signal_ids) = Cardinality(g)
                 /\ fnOut[1][k].pattern_type = "velocity_spike"
                 /\ Near(fnOut[1][k].opportunity_score, SpikeScore(g))

(* a call that returned a pattern with a capped score and left out both
   a record below the threshold and a group of one *)
C22_Witness ==
    /\ fnOut # <<>>
    /\ Len(fnOut[1]) = 1
    /\ fnOut[1][1].opportunity_score = Scale
    /\ Len(fnOut[1][1].signal_ids) = 2
    /\ Len(fnIn.signals) = 3

(***************************************************************************)
(* GapDetector.detect on its own                                           *)
(***************************************************************************)
MaxGapSignals == 3

(* the clusters detect hands to _analyze_gap, one model call each *)
gap_analyzed(signals, threshold) ==
    LET complaint_signals == Where(signals, { i \in DOMAIN signals : signals[i].signal_type = "complaint" })
        builder_signals == Where(signals, { i \in DOMAIN signals : signals[i].signal_type = "builder_activity" })
        builder_embeddings == Where([i \in DOMAIN builder_signals |-> builder_signals[i].embedding], { i \in DOMAIN builder_signals : builder_signals[i].embedding # NoEmbedding })
        complaint_clusters == _cluster_complaints(complaint_signals)
        cluster_embedding(c) == average_embedding([i \in DOMAIN c |-> c[i].embedding])
        builder_matches(c) == IF cluster_embedding(c) # NoEmbedding THEN find_similar_signals(cluster_embedding(c), builder_embeddings, threshold) ELSE <<>>
    IN  IF complaint_signals = <<>> THEN <<>>
        ELSE Flatten([k \in DOMAIN complaint_clusters |->
                        IF Len(complaint_clusters[k]) >= 1 /\ Len(builder_matches(complaint_clusters[k])) <= 1
                        THEN << complaint_clusters[k] >> ELSE <<>>])

(* the answers of the model on the gap call of GapResponses, and one that
   says yes twice with a confidence that is no number *)
GapAnswers == GapResponses \cup { GapResp("badnumber", TRUE, TRUE, 0, 0) }

InitGap ==
    /\ IdleWorkers
    /\ \E n \in 0..MaxGapSignals : \E p \in [1..n -> SignalProfiles] : \E resp \in GapAnswers :
           fnIn = [fn |-> "gap_detect",
                   signals |-> [i \in 1..n |-> PatSignal(i, p[i])],
                   resp |-> resp]
    /\ fnOut = <<>>
    /\ IdleLimiter
    /\ IdleScore
    /\ IdleCluster
    /\ IdlePipeline
    /\ IdleGen
    /\ IdleDetectors

(* gap_detector.detect(signals) with the default similarity threshold *)
GapCall ==
    /\ fnOut = <<>>
    /\ fnOut' = << [patterns |-> gap_detect(fnIn.signals, fnIn.resp, similarity_threshold),
                    analyzed |-> gap_analyzed(fnIn.signals, similarity_threshold)] >>
    /\ UNCHANGED <<wrkVars, fnIn, limVars, scoreVars, clusterVars, pipeVars, genVars, convVars, detVars>>

NextGap == GapCall

SpecGap == InitGap /\ [][NextGap]_vars

GapComplaints == { i \in DOMAIN fnIn.signals : fnIn.signals[i].signal_type = "complaint" }
GapBuilders == { i \in DOMAIN fnIn.signals : fnIn.signals[i].signal_type = "builder_activity" }

(* the first keyword of a complaint as written, and lowercased *)
FirstKeyword(i) == IF fnIn.signals[i].keywords # <<>> THEN Head(fnIn.signals[i].keywords) ELSE "general"
LoweredFirstKeyword(i) == IF fnIn.signals[i].keywords # <<>> THEN KeywordLower(Head(fnIn.signals[i].keywords)) ELSE "general"

ClustersBy(Key(_)) == { { i \in GapComplaints : Key(i) = Key(j) } : j \in GapComplaints }

(* the builder-activity embeddings at similarity >= 0.75 to the mean
   embedding of the complaints g *)
BuilderMatches(g) ==
    LET mean == average_embedding(Where([i \in DOMAIN fnIn.signals |-> fnIn.signals[i].embedding], g))
    IN  { b \in GapBuilders : /\ mean # NoEmbedding
                              /\ fnIn.signals[b].embedding # NoEmbedding
                              /\ cosine_similarity(mean, fnIn.signals[b].embedding) >= 750 }

ModelSaysYes == fnIn.resp.kind = "ok" /\ fnIn.resp.is_real_gap /\ fnIn.resp.worth_pursuing

(* confidence * pain_severity/10 * min(1, count/3), times 1.2 when the
   mean demand_evidence is >= 7, capped at 1.0; in thousandths *)
GapScore(g) ==
    LET present == { i \in g : fnIn.signals[i].thesis_scores["demand_evidence"] \notin {None, 0} }
        total == SeqSum([i \in DOMAIN fnIn.signals |-> IF i \in present THEN fnIn.signals[i].thesis_scores["demand_evidence"] ELSE 0])
        boost == IF present # {} /\ total >= 7 * Cardinality(present) THEN 12 ELSE 10
    IN  Min(Scale, (fnIn.resp.confidence * fnIn.resp.pain_severity * Min(3, Cardinality(g)) * boost) \div (10 * 3 * 10))

IdsOf(g) == { fnIn.signals[i].id : i \in g }

GapClaim(Key(_)) ==
    fnOut # <<>> =>
        /\ \A g \in ClustersBy(Key) :
              (\E k \in DOMAIN fnOut[1].patterns : Range(fnOut[1].patterns[k].signal_ids) = IdsOf(g))
                  <=> (Cardinality(BuilderMatches(g)) <= 1 /\ ModelSaysYes)
        /\ \A k \in DOMAIN fnOut[1].patterns :
              \E g \in ClustersBy(Key) :
                 /\ Range(fnOut[1].patterns[k].signal_ids) = IdsOf(g)
                 /\ Near(fnOut[1].patterns[k].opportunity_score, GapScore(g))
        /\ \A g \in ClustersBy(Key) :
              Cardinality({ k \in DOMAIN fnOut[1].analyzed : { fnOut[1].analyzed[k][i].id : i \in DOMAIN fnOut[1].analyzed[k] } = IdsOf(g) })
                  = (IF Cardinality(BuilderMatches(g)) <= 1 THEN 1 ELSE 0)

(* C23 as stated: the complaint clusters are the groups of equal first
   keyword; a cluster gives a gap pattern exactly when at most 1 builder
   embedding matches its mean embedding at >= 0.75 and the model answers
   yes twice, the score is confidence * pain_severity/10 *
   min(1, count/3), times 1.2 at demand_evidence >= 7, capped at 1.0, and
   a cluster with more than 1 builder match costs no model call *)
C23_GapPerFirstKeywordCluster == GapClaim(FirstKeyword)

(* C23 amended: the same with the clusters being the groups of equal
   lowercased first keyword, the model's answer carrying numbers *)
C23_GapPerLoweredKeywordCluster == GapClaim(LoweredFirstKeyword)

(* one call and one pattern for the cluster joining a "k1" and a "K1"
   complaint, one builder matching it *)
C23_Witness ==
    /\ fnOut # <<>>
    /\ ModelSaysYes
    /\ Len(fnOut[1].patterns) = 1
    /\ Len(fnOut[1].analyzed) = 1
    /\ fnOut[1].patterns[1].opportunity_score > 0
    /\ Cardinality(ClustersBy(LoweredFirstKeyword)) = 1
    /\ Cardinality(ClustersBy(FirstKeyword)) = 2
    /\ \E g \in ClustersBy(LoweredFirstKeyword) : Cardinality(BuilderMatches(g)) = 1

(***************************************************************************)
(* The detectors' aggregation of thesis scores over a pattern's signals   *)
(***************************************************************************)
MaxAggSignals == 2

(* VelocitySpikeDetector._aggregate_thesis_scores and
   GapDetector._aggregate_thesis_scores (the same code): per factor the
   mean of the truthy values, None when there is none; in thousandths *)
aggregate_thesis_scores(signals) ==
    [raised |-> FALSE,
     scores |-> [f \in FactorSet |->
         LET v == SelectSeqIdx([i \in DOMAIN signals |->
                      IF signals[i].thesis_scores[f] \notin {None, 0}
                      THEN "in" ELSE "out"], {"in"}, 1)
         IN  IF v = <<>> THEN None
             ELSE SeqSum([k \in DOMAIN v |-> signals[v[k]].thesis_scores[f] * Scale]) \div Len(v)]]

(* max(thesis_scores.items(), key=lambda x: x[1] or 0)[0]: the first key,
   in dict order, of the highest value *)
primary_thesis(scores, keys) ==
    LET val(f) == IF scores[f] = None THEN 0 ELSE scores[f]
        k == CHOOSE k \in DOMAIN keys :
                 /\ \A j \in DOMAIN keys : val(keys[j]) <= val(keys[k])
                 /\ \A j \in 1..(k - 1) : val(keys[j]) < val(keys[k])
    IN  keys[k]

PatternKinds == { "convergence", "velocity_spike", "gap" }

(* the aggregation each detector runs when it builds a pattern, and the
   primary thesis alignment it derives *)
detector_aggregate(kind, signals) ==
    LET agg == IF kind = "convergence" THEN _aggregate_thesis_scores(signals)
               ELSE aggregate_thesis_scores(signals)
    IN  IF agg.raised THEN [raised |-> TRUE, scores |-> <<>>, primary |-> ""]
        ELSE [raised |-> FALSE, scores |-> agg.scores,
              primary |-> primary_thesis(agg.scores, Factors)]

(* the thesis scores of a contributing signal: two factors vary, one is
   always absent, the rest are 5 *)
ThesisVectors ==
    { [f \in FactorSet |->
         IF f = "demand_evidence" THEN a
         ELSE IF f = "trend_timing" THEN b
         ELSE IF f = "regulatory_simplicity" THEN None ELSE 5] : a \in {None, 2, 9}, b \in {None, 2, 9} }

InitAggregate ==
    /\ IdleWorkers
    /\ \E n \in 1..MaxAggSignals : \E t \in [1..n -> ThesisVectors] : \E kind \in PatternKinds :
           fnIn = [fn |-> "_aggregate_thesis_scores", kind |-> kind,
                   signals |-> [i \in 1..n |-> [id |-> i, thesis_scores |-> t[i]]]]
    /\ fnOut = <<>>
    /\ IdleLimiter
    /\ IdleScore
    /\ IdleCluster
    /\ IdlePipeline
    /\ IdleGen
    /\ IdleDetectors

AggregateCall ==
    /\ fnOut = <<>>
    /\ fnOut' = << detector_aggregate(fnIn.kind, fnIn.signals) >>
    /\ UNCHANGED <<wrkVars, fnIn, limVars, scoreVars, clusterVars, pipeVars, genVars, convVars, detVars>>

NextAggregate == AggregateCall

SpecAggregate == InitAggregate /\ [][NextAggregate]_vars

(* the signals that carry factor f *)
Carrying(f) == { i \in DOMAIN fnIn.signals : fnIn.signals[i].thesis_scores[f] # None }

AggValue(f) == IF fnOut[1].scores[f] = None THEN 0 ELSE fnOut[1].scores[f]

(* C24: in each of the three detectors the aggregated vector has, for each
   of the six factors, the mean of the values present among the pattern's
   signals, is absent for a factor no signal carries, and the primary
   thesis alignment is a factor of highest aggregate, absent counting 0 *)
C24_AggregateIsMeanOfPresent ==
    fnOut # <<>> =>
        /\ ~fnOut[1].raised
        /\ DOMAIN fnOut[1].scores = FactorSet
        /\ \A f \in FactorSet :
              IF Carrying(f) = {} THEN fnOut[1].scores[f] = None
              ELSE fnOut[1].scores[f] =
                      (SeqSum([i \in DOMAIN fnIn.signals |->
                          IF i \in Carrying(f) THEN fnIn.signals[i].thesis_scores[f] ELSE 0]) * Scale)
                          \div Cardinality(Carrying(f))
        /\ fnOut[1].primary \in FactorSet
        /\ \A f \in FactorSet : AggValue(f) <= AggValue(fnOut[1].primary)

(***************************************************************************)
(* Properties of generate_from_patterns.                                   *)
(***************************************************************************)
(* the pattern scores at least min_score and one of its signal ids names
   a supplied signal that is not disqualified *)
Supported(pattern) ==
    /\ pattern.opportunity_score >= 500
    /\ \E k \in DOMAIN pattern.signal_ids :
          /\ pattern.signal_ids[k] \in DOMAIN gsignals
          /\ ~gsignals[pattern.signal_ids[k]]

(* the ids of the supported patterns of a list, in list order *)
SupportedIds(patterns) ==
    LET idx == SelectSeqIdx([i \in DOMAIN patterns |-> IF Supported(patterns[i]) THEN "in" ELSE "out"], {"in"}, 1)
    IN  [k \in DOMAIN idx |-> patterns[idx[k]].id]

(* C25: generate_from_patterns attempts generation, with one model call,
   for exactly the patterns that score at least min_score and have a
   supplied, non-disqualified signal; it passes over any other pattern
   without a model call and without an error entry, and a failure on one
   pattern does not keep the following ones from being processed *)
C25_AttemptedIffSupported ==
    /\ [](grun.status = "returned" => grun.attempted = SupportedIds(grun.patterns))
    /\ [][(grun.status = "running" /\ grun'.status = "running" /\ grun' # grun) =>
            IF Supported(Head(grun.queue))
            THEN /\ genCalls' = genCalls + 1
                 /\ grun'.attempted = Append(grun.attempted, Head(grun.queue).id)
            ELSE /\ genCalls' = genCalls
                 /\ gen' = gen
                 /\ grun'.attempted = grun.attempted]_vars

(* a returned run over two patterns of score 0.8: the first failed and
   has its error entry, the second was passed over, its signals
   disqualified or unknown *)
C25_Witness ==
    /\ grun.status = "returned"
    /\ Len(grun.patterns) = 2
    /\ grun.attempted = <<1>>
    /\ grun.patterns[2].opportunity_score >= 500
    /\ Len(gen._errors) = 1
    /\ genCalls = 1

(* a returned run whose first pattern failed and whose second one was
   attempted all the same *)
RunGoesOnAfterFailure ==
    /\ grun.status = "returned"
    /\ grun.attempted = <<1, 2>>
    /\ Len(gen._errors) >= 1
    /\ gen._errors[1].pattern_id = 1

(* the ids of the patterns whose generation failed in the run: attempted,
   and no opportunity of the run comes from them *)
FailedIds(r) ==
    LET made == { r.opportunities[k].pattern_ids[1] : k \in DOMAIN r.opportunities }
        idx == SelectSeqIdx([i \in DOMAIN r.attempted |-> IF r.attempted[i] \in made THEN "out" ELSE "in"], {"in"}, 1)
    IN  [k \in DOMAIN idx |-> r.attempted[idx[k]]]

(* C26: when a run of generate_from_patterns returns, get_errors() holds
   exactly one entry per pattern that failed in that run, with that
   pattern's id and an error, and nothing from earlier runs *)
C26_ErrorsOfLastRunOnly ==
    [][(grun.status = "running" /\ grun'.status = "returned") =>
          /\ [k \in DOMAIN gen'._errors |-> gen'._errors[k].pattern_id] = FailedIds(grun')
          /\ \A k \in DOMAIN gen'._errors : gen'._errors[k].error # NoError]_vars

(***************************************************************************)
(* SignalClassifier.classify on its own                                    *)
(***************************************************************************)
MaxClsKeywords == 2

(* the signal_type of the model's answer: a valid one, an unknown one, or
   "" for a missing key *)
AnsweredTypes == SIGNAL_TYPES \cup { "unknown", "" }

(* the answers of the model on the classification call.  shape tells what
   the parsed JSON is: "valid" for an object with the keys and types of
   the prompt, "no_object" for a list or a number (result.get raises),
   "missing_keys" for the object {}, "keywords_no_list" for an object
   whose keywords is a string, kept here as the list of its characters
   (nothing in classify reads it) *)
ClassifyAnswers ==
    { ClsResp("error", "", "", "", <<>>, <<>>, <<>>) @@ [shape |-> "none"],
      ClsResp("badjson", "", "", "", <<>>, <<>>, <<>>) @@ [shape |-> "none"],
      ClsResp("no_object", "", "", "", <<>>, <<>>, <<>>) @@ [shape |-> "no_object"],
      ClsResp("ok", "", "", "", <<>>, <<>>, <<>>) @@ [shape |-> "missing_keys"] }
    \cup { ClsResp("ok", t, "s", p, <<>>, <<>>, [i \in 1..n |-> "k1"]) @@ [shape |-> "valid"] :
              t \in AnsweredTypes \ {""}, p \in {"", "p"}, n \in 0..MaxClsKeywords }
    \cup { ClsResp("ok", t, "s", p, <<>>, <<>>, [i \in 1..n |-> "k1"]) @@ [shape |-> "keywords_no_list"] :
              t \in AnsweredTypes \ {""}, p \in {"", "p"}, n \in 1..MaxClsKeywords }

InitClassify ==
    /\ IdleWorkers
    /\ \E resp \in ClassifyAnswers : fnIn = [fn |-> "classify", resp |-> resp]
    /\ fnOut = <<>>
    /\ IdleLimiter
    /\ IdleScore
    /\ IdleCluster
    /\ IdlePipeline
    /\ IdleGen
    /\ IdleDetectors

(* classifier.classify(signal) *)
ClassifyCall ==
    /\ fnOut = <<>>
    /\ fnOut' = << classify(fnIn.resp) >>
    /\ UNCHANGED <<wrkVars, fnIn, limVars, scoreVars, clusterVars, pipeVars, genVars, convVars, detVars>>

NextClassify == ClassifyCall

SpecClassify == InitClassify /\ [][NextClassify]_vars

(* C27: classify returns the fallback classification on a call failure,
   on output that is no JSON and on JSON of the wrong shape, and the
   signal_type it returns is always one of the six valid types *)
C27_FallbackOnBadOutput ==
    fnOut # <<>> =>
        /\ fnOut[1].signal_type \in SIGNAL_TYPES
        /\ (fnIn.resp.kind # "ok" \/ fnIn.resp.shape # "valid") => fnOut[1] = _default_classification

(***************************************************************************)
(* process_unprocessed in several processes at once (the API server, the  *)
(* scheduler, a script), all on the one database.  A process runs its     *)
(* batch signal by signal; what the processes share is the two tables,    *)
(* and a step of the model is one statement sent to the database.         *)
(***************************************************************************)
MaxWorkers == 2
MaxFetches == 2

Workers == 1..MaxWorkers

(* a first query that finds no processed signal *)
select_processed_ids_none(table) == {}

(* get_unprocessed_signals, its first query: the raw_signal_id of every
   row of processed_signals *)
select_processed_ids(table) == { table[i].raw_signal_id : i \in DOMAIN table }

(* get_unprocessed_signals, its second query: the raw signals whose id is
   not in processed_ids, in table order, cut to limit *)
select_raw_not_in(raw, processed_ids, limit) ==
    LET idx == SelectSeqIdx(raw, Range(raw) \ processed_ids, 1)
    IN  [k \in 1..Min(limit, Len(idx)) |-> raw[idx[k]]]

IdleWorker == [pc |-> "idle", processed_ids |-> {}, snap_at |-> 0, queue |-> <<>>, fetch |-> 0]

InitWorkers ==
    /\ scen = [i \in 1..MaxRaw |-> Scenario(ClsPet, RespOkSeven, EmbResp("ok", <<1, 0>>))]
    /\ processed = <<>>
    /\ counts = [w \in Workers |-> [k \in TrackerKeys |-> <<>>]]
    /\ now = 0
    /\ run = IdleRun
    /\ calls = 0
    /\ last = <<>>
    /\ workers = [w \in Workers |-> IdleWorker]
    /\ fetches = <<>>
    /\ inserts = <<>>
    /\ IdleScore
    /\ IdleCluster
    /\ IdleGen
    /\ IdleDetectors
    /\ IdleFunctions
    /\ IdleLimiter

(* process_unprocessed begins: get_unprocessed_signals reads the ids of
   the processed signals *)
SelectProcessedIds(w) ==
    /\ workers[w].pc = "idle"
    /\ Len(fetches) + Cardinality({ v \in Workers : workers[v].pc = "selected_ids" }) < MaxFetches
    /\ workers' = [workers EXCEPT ![w] = [@ EXCEPT !.pc = "selected_ids",
                                                   !.processed_ids = select_processed_ids(processed),
                                                   !.snap_at = Len(inserts)]]
    /\ UNCHANGED <<fetches, inserts, pipeVars, scoreVars, clusterVars, fnVars, limVars, genVars, convVars, detVars>>

(* get_unprocessed_signals selects the raw signals and returns; with none
   process_unprocessed returns 0 *)
SelectRaw(w, limit) ==
    /\ workers[w].pc = "selected_ids"
    /\ LET unprocessed == select_raw_not_in(raw_table, workers[w].processed_ids, limit)
       IN  /\ fetches' = Append(fetches, [worker |-> w, raws |-> Range(unprocessed),
                                          snap_at |-> workers[w].snap_at, fetch_at |-> Len(inserts)])
           /\ workers' = [workers EXCEPT ![w] = IF unprocessed = <<>>
                                                THEN IdleWorker
                                                ELSE [@ EXCEPT !.pc = "running", !.queue = unprocessed,
                                                               !.fetch = Len(fetches) + 1]]
    /\ UNCHANGED <<inserts, pipeVars, scoreVars, clusterVars, fnVars, limVars, genVars, convVars, detVars>>

(* one iteration of process_batch in worker w: process_signal on its next
   raw signal, with the velocity tracker of w's process *)
WorkerStep(w, fault) ==
    /\ workers[w].pc = "running"
    /\ workers[w].queue # <<>>
    /\ LET raw == Head(workers[w].queue)
           out == process_signal(raw, scen[raw], fault, processed, counts[w], now)
       IN  /\ processed' = out.processed
           /\ counts' = [counts EXCEPT ![w] = out.counts]
           /\ inserts' = IF out.result # <<>>
                         THEN Append(inserts, [raw |-> raw, fetch |-> workers[w].fetch])
                         ELSE inserts
    /\ workers' = [workers EXCEPT ![w] = [@ EXCEPT !.queue = Tail(@)]]
    /\ UNCHANGED <<fetches, scen, now, run, calls, last, scoreVars, clusterVars, fnVars, limVars, genVars, convVars, detVars>>

(* process_batch and process_unprocessed return *)
WorkerEnd(w) ==
    /\ workers[w].pc = "running"
    /\ workers[w].queue = <<>>
    /\ workers' = [workers EXCEPT ![w] = IdleWorker]
    /\ UNCHANGED <<fetches, inserts, pipeVars, scoreVars, clusterVars, fnVars, limVars, genVars, convVars, detVars>>

NextWorkers ==
    \/ \E w \in Workers : SelectProcessedIds(w)
    \/ \E w \in Workers, limit \in {1, MaxRaw} : SelectRaw(w, limit)
    \/ \E w \in Workers, fault \in {"none", "insert"} : WorkerStep(w, fault)
    \/ \E w \in Workers : WorkerEnd(w)

SpecWorkers == InitWorkers /\ [][NextWorkers]_vars

(* every row of processed_signals is linked to the raw signal it was made
   from, which its run had fetched, and no run inserts a raw signal twice *)
RowsLinked ==
    /\ Len(processed) = Len(inserts)
    /\ \A k \in DOMAIN inserts :
          /\ processed[k].raw_signal_id = inserts[k].raw
          /\ inserts[k].raw \in fetches[inserts[k].fetch].raws
    /\ \A i, j \in DOMAIN inserts :
          (i < j /\ inserts[i].raw = inserts[j].raw) => inserts[i].fetch # inserts[j].fetch

(* runs whose fetched sets are disjoint leave at most one row per raw
   signal *)
DisjointRunsOneRow ==
    (\A f, g \in DOMAIN fetches : f # g => fetches[f].raws \cap fetches[g].raws = {})
        => \A i, j \in DOMAIN processed :
              processed[i].raw_signal_id = processed[j].raw_signal_id => i = j

(* C28 as stated: rows are linked to their raw signals, runs over disjoint
   sets leave at most one row per raw signal, and two rows for one raw
   signal come only from two runs that both had fetched it when the first
   of the two rows was inserted *)
C28_DuplicateOnlyIfBothFetchedFirst ==
    /\ RowsLinked
    /\ DisjointRunsOneRow
    /\ \A i, j \in DOMAIN inserts :
          (i < j /\ inserts[i].raw = inserts[j].raw) => fetches[inserts[j].fetch].fetch_at < i

(* C28 amended: the same with the later run having started its fetch,
   that is read the ids of the processed signals, before the first of the
   two rows was inserted *)
C28_DuplicateOnlyIfBothStartedFetchFirst ==
    /\ RowsLinked
    /\ DisjointRunsOneRow
    /\ \A i, j \in DOMAIN inserts :
          (i < j /\ inserts[i].raw = inserts[j].raw) => fetches[inserts[j].fetch].snap_at < i

(* two rows for raw signal 1 from two runs, and one row for raw signal 2 *)
C28_Witness ==
    /\ Len(inserts) = 3
    /\ \E i, j \in DOMAIN inserts : i < j /\ inserts[i].raw = 1 /\ inserts[j].raw = 1
    /\ \E k \in DOMAIN inserts : inserts[k].raw = 2

(***************************************************************************)
(* One worker running process_unprocessed again and again.                 *)
(***************************************************************************)
RowsOf(raw) == { i \in DOMAIN processed : processed[i].raw_signal_id = raw }

(* the raw signals of a run whose processing failed, in input order *)
FailedRaws(attempts) ==
    LET idx == SelectSeqIdx([i \in DOMAIN attempts |-> IF attempts[i].ok THEN "ok" ELSE "failed"], {"failed"}, 1)
    IN  [k \in DOMAIN idx |-> attempts[idx[k]].raw]

(* C29: with one worker running process_unprocessed repeatedly, a raw
   signal processed with success is never fetched again and never gets a
   second row; a raw signal whose processing failed has no row, stays
   unprocessed, and the next run fetches the failed ones first, all of
   them unless its limit is smaller than their number *)
C29_ProcessedOnceFailedRefetched ==
    /\ [](\A raw \in Range(raw_table) : Cardinality(RowsOf(raw)) <= 1)
    /\ [](\A i \in DOMAIN run.attempts :
             IF run.attempts[i].ok THEN RowsOf(run.attempts[i].raw) # {}
             ELSE RowsOf(run.attempts[i].raw) = {})
    /\ [][(run.status # "running" /\ run' # run) =>
            LET failed == FailedRaws(run.attempts)
                n == Min(Len(failed), Len(run'.input))
            IN  /\ \A k \in DOMAIN run'.input : RowsOf(run'.input[k]) = {}
                /\ SubSeq(run'.input, 1, n) = SubSeq(failed, 1, n)]_vars

(* a run that has fetched the raw signal whose processing failed in the
   run before, and not the one that succeeded there *)
C29_Witness ==
    /\ run.status = "running"
    /\ run.attempts = <<>>
    /\ last # <<>>
    /\ last[1].result = <<>>
    /\ run.input = << last[1].raw >>
    /\ Len(processed) = 1
    /\ processed[1].raw_signal_id # last[1].raw

(***************************************************************************)
(* RateLimiter.acquire with the hourly and daily limits                    *)
(***************************************************************************)
(* the limits of the limiters under study: a per-minute limit alone (as
   "anthropic"), with an hourly limit (as "github"), with a daily limit
   (as "youtube") *)
LimiterConfigs ==
    { [requests_per_minute |-> 1, requests_per_hour |-> None, requests_per_day |-> None],
      [requests_per_minute |-> 1, requests_per_hour |-> 2, requests_per_day |-> None],
      [requests_per_minute |-> 1, requests_per_hour |-> None, requests_per_day |-> 2] }

(* acquire that grants without recording the grant in the windows *)
acquire_unrecorded(lim, windows, t) ==
    LET minute == _clean_window(windows.minute, 60, t)
        hour == IF lim.requests_per_hour # None THEN _clean_window(windows.hour, 3600, t) ELSE windows.hour
        day == IF lim.requests_per_day # None THEN _clean_window(windows.day, 86400, t) ELSE windows.day
    IN  [granted |-> TRUE, minute |-> minute, hour |-> hour, day |-> day, sleep |-> 0]

(* one pass of acquire's while loop at time t on a limiter with the limits
   lim: the windows are cleaned, and either all limits admit the request,
   now is appended to the windows in use and the call returns, or the
   caller sleeps for the time the first exhausted window needs, plus 0.1 s,
   and 60 s at most *)
acquire(lim, windows, t) ==
    LET minute == _clean_window(windows.minute, 60, t)
        hour == IF lim.requests_per_hour # None THEN _clean_window(windows.hour, 3600, t) ELSE windows.hour
        day == IF lim.requests_per_day # None THEN _clean_window(windows.day, 86400, t) ELSE windows.day
        minute_ok == Len(minute) < lim.requests_per_minute
        hour_ok == lim.requests_per_hour = None \/ Len(hour) < lim.requests_per_hour
        day_ok == lim.requests_per_day = None \/ Len(day) < lim.requests_per_day
    IN  IF minute_ok /\ hour_ok /\ day_ok
        THEN [granted |-> TRUE,
              minute |-> Append(minute, t),
              hour |-> IF lim.requests_per_hour # None THEN Append(hour, t) ELSE hour,
              day |-> IF lim.requests_per_day # None THEN Append(day, t) ELSE day,
              sleep |-> 0]
        ELSE LET wait_time == IF ~minute_ok THEN 60 * TicksPerSecond - (t - Head(minute))
                              ELSE IF ~hour_ok THEN 3600 * TicksPerSecond - (t - Head(hour))
                              ELSE 86400 * TicksPerSecond - (t - Head(day))
             IN  [granted |-> FALSE, minute |-> minute, hour |-> hour, day |-> day,
                  sleep |-> Min(wait_time + TicksPerSecond \div 10, 60 * TicksPerSecond)]

(* a caller of this limiter: its position, the end of its sleep, and the
   timestamp of its grant *)
IdleWindowCaller == [pc |-> "idle", wake |-> 0, at |-> None]

InitWindows ==
    /\ IdleWorkers
    /\ limits \in LimiterConfigs
    /\ _minute_window = <<>>
    /\ _hour_window = <<>>
    /\ _day_window = <<>>
    /\ clock = 0
    /\ callers = [c \in Callers |-> IdleWindowCaller]
    /\ arrivals = <<>>
    /\ IdleFunctions
    /\ IdleScore
    /\ IdleCluster
    /\ IdlePipeline
    /\ IdleGen
    /\ IdleDetectors

WindowPass(c) ==
    LET r == acquire(limits, [minute |-> _minute_window, hour |-> _hour_window, day |-> _day_window], clock)
    IN  /\ _minute_window' = r.minute
        /\ _hour_window' = r.hour
        /\ _day_window' = r.day
        /\ callers' = [callers EXCEPT ![c] = IF r.granted THEN [pc |-> "granted", wake |-> 0, at |-> clock]
                                             ELSE [pc |-> "sleeping", wake |-> clock + r.sleep, at |-> None]]

(* a coroutine calls acquire(): the first pass of the loop, up to the
   return or the sleep, runs without yielding to the event loop; the
   callers come in the order of their numbers *)
AcquireCall(c) ==
    /\ callers[c].pc = "idle"
    /\ \A b \in Callers : b < c => callers[b].pc # "idle"
    /\ arrivals' = Append(arrivals, c)
    /\ WindowPass(c)
    /\ UNCHANGED <<wrkVars, clock, limits, fnVars, scoreVars, clusterVars, pipeVars, genVars, convVars, detVars>>

(* asyncio.sleep ends and the caller runs the loop once more *)
AcquireResume(c) ==
    /\ callers[c].pc = "sleeping"
    /\ callers[c].wake <= clock
    /\ WindowPass(c)
    /\ UNCHANGED <<wrkVars, clock, arrivals, limits, fnVars, scoreVars, clusterVars, pipeVars, genVars, convVars, detVars>>

(* the longest window the limiter uses, in seconds *)
LongestWindow(lim) ==
    IF lim.requests_per_day # None THEN 86400
    ELSE IF lim.requests_per_hour # None THEN 3600
    ELSE 60

(* time passes: by a sixth of the longest window, up to the end of a
   sleep, or up to one tick before it; a sleep that has ended is served
   before more time passes *)
WindowDurations ==
    { d \in { (LongestWindow(limits) \div 6) * TicksPerSecond } \cup { callers[c].wake - clock : c \in Sleeping } \cup { callers[c].wake - clock - 1 : c \in Sleeping } : d > 0 }

ClockAdvance(d) ==
    /\ clock + d <= (LongestWindow(limits) + 1) * TicksPerSecond
    /\ \A c \in Callers : callers[c].pc = "sleeping" => clock + d <= callers[c].wake
    /\ clock' = clock + d
    /\ UNCHANGED <<wrkVars, _minute_window, callers, arrivals, limits, _hour_window, _day_window, fnVars, scoreVars, clusterVars, pipeVars, genVars, convVars, detVars>>

NextWindows ==
    \/ \E c \in Callers : AcquireCall(c)
    \/ \E c \in Callers : AcquireResume(c)
    \/ \E d \in WindowDurations : ClockAdvance(d)

SpecWindows == InitWindows /\ [][NextWindows]_vars

(* the grants whose timestamp lies in the seconds up to the grant of g *)
GrantsWithin(seconds, g) ==
    { c \in Callers : /\ callers[c].pc = "granted"
                      /\ callers[c].at <= callers[g].at
                      /\ callers[c].at >= callers[g].at - seconds * TicksPerSecond }

(* C30: for any interleaving of concurrent acquire calls, the grants with a
   timestamp inside any trailing 60-second window never exceed
   requests_per_minute, and likewise requests_per_hour per 3600 seconds and
   requests_per_day per 86400 seconds when configured *)
C30_GrantsWithinLimits ==
    \A g \in Callers :
        callers[g].pc = "granted" =>
            /\ Cardinality(GrantsWithin(60, g)) <= limits.requests_per_minute
            /\ limits.requests_per_hour # None => Cardinality(GrantsWithin(3600, g)) <= limits.requests_per_hour
            /\ limits.requests_per_day # None => Cardinality(GrantsWithin(86400, g)) <= limits.requests_per_day

(* with a daily limit of two, all three callers hold a grant, one of them
   given only after the day of the first grant was over *)
C30_Witness ==
    /\ limits.requests_per_day # None
    /\ \A c \in Callers : callers[c].pc = "granted"
    /\ \E a, b \in Callers : callers[b].at > callers[a].at + 86400 * TicksPerSecond

Spec == SpecScore

====
